---------------------------- MODULE Spec2Model ----------------------------
(***************************************************************************)
(* A model of the streaming speech-to-text pipeline of the repository:    *)
(*   SpeechService    (src/src/services/speech/SpeechService.ts)           *)
(*   ChunkProcessor   (src/unnamed/part_003)                               *)
(*   StreamingManager (src/unnamed/part_004)                               *)
(* The service runs on one JavaScript event loop: every action below is    *)
(* one run-to-completion step, i.e. the code between two suspension points *)
(* (await, timer, process event).  The handlers are written as operators   *)
(* from a world record w (all fields of all objects) to the next world, so *)
(* that a handler that calls another one is the composition of the two.    *)
(***************************************************************************)
EXTENDS Integers, Sequences, FiniteSets, TLC

(***************************************************************************)
(* Bounds of the model.                                                    *)
(***************************************************************************)
\* child processes (and calls of startStreamingRecording) alive at a time
MaxStarts == 1
\* segment files a child process reports
MaxReady == 2
\* calls of stopStreamingRecording suspended at a time
MaxStops == 2
\* lines of stderr text where the detector's reading is explored
MaxLines == 2
\* listener sets of the streaming start handler attached at a time
MaxHandlers == 2
\* the same two limits where more processes are explored
SmallReady == 1
SmallStops == 1

(***************************************************************************)
(* Strings are sequences of one-character strings.                         *)
(***************************************************************************)
EmptyStr == << >>
Space == " "

\* String.prototype.toLowerCase on the alphabet of the model
LowerChar(c) == IF c = "A" THEN "a" ELSE IF c = "B" THEN "b" ELSE c
\* a variant that leaves the case as it is
keepCase(s) == s

toLowerCase(s) == [i \in 1..Len(s) |-> LowerChar(s[i])]

RECURSIVE trimStart(_)
trimStart(s) == IF s # << >> /\ Head(s) = Space THEN trimStart(Tail(s)) ELSE s

RECURSIVE trimEnd(_)
trimEnd(s) ==
    IF s # << >> /\ s[Len(s)] = Space THEN trimEnd(SubSeq(s, 1, Len(s) - 1)) ELSE s

\* String.prototype.trim
trim(s) == trimEnd(trimStart(s))

\* String.prototype.split(/\s+/): a maximal run of white space separates two
\* words; the empty string gives one empty word, a leading or trailing run
\* gives an empty first or last word.
RECURSIVE splitFrom(_, _, _)
splitFrom(s, cur, inWs) ==
    IF s = << >> THEN << cur >>
    ELSE IF Head(s) = Space
         THEN IF inWs THEN splitFrom(Tail(s), cur, TRUE)
              ELSE << cur >> \o splitFrom(Tail(s), << >>, TRUE)
         ELSE splitFrom(Tail(s), Append(cur, Head(s)), FALSE)

splitWs(s) == splitFrom(s, << >>, FALSE)

\* Array.prototype.join(" ")
RECURSIVE joinSp(_)
joinSp(ws) ==
    IF ws = << >> THEN << >>
    ELSE IF Len(ws) = 1 THEN ws[1]
    ELSE ws[1] \o << Space >> \o joinSp(Tail(ws))

\* Array.prototype.slice(-i) and slice(0, i) and slice(i), for 0 <= i
sliceLast(ws, i) == SubSeq(ws, (IF Len(ws) - i < 0 THEN 0 ELSE Len(ws) - i) + 1, Len(ws))
sliceFirst(ws, i) == SubSeq(ws, 1, IF i < Len(ws) THEN i ELSE Len(ws))
sliceFrom(ws, i) == SubSeq(ws, i + 1, Len(ws))

Min2(a, b) == IF a < b THEN a ELSE b

(***************************************************************************)
(* StreamingManager                                                        *)
(***************************************************************************)
\* the look-back of deduplicateOverlap, in words
MaxOverlapWords == 5

\* the loop of deduplicateOverlap: i runs upwards and every match overwrites
\* overlapLength, so the result is the largest matching i (0 if none)
\* a variant of the loop that stops at the first match
RECURSIVE overlapLoopFirst(_, _, _, _, _)
overlapLoopFirst(prevWords, currWords, i, maxOverlap, overlapLength) ==
    IF i > maxOverlap THEN overlapLength
    ELSE LET prevSuffix == toLowerCase(joinSp(sliceLast(prevWords, i)))
             currPrefix == toLowerCase(joinSp(sliceFirst(currWords, i)))
         IN  IF prevSuffix = currPrefix THEN i
             ELSE overlapLoopFirst(prevWords, currWords, i + 1, maxOverlap, overlapLength)

RECURSIVE overlapLoop(_, _, _, _, _)
overlapLoop(prevWords, currWords, i, maxOverlap, overlapLength) ==
    IF i > maxOverlap THEN overlapLength
    ELSE LET prevSuffix == toLowerCase(joinSp(sliceLast(prevWords, i)))
             currPrefix == toLowerCase(joinSp(sliceFirst(currWords, i)))
         IN  overlapLoop(prevWords, currWords, i + 1, maxOverlap,
                         IF prevSuffix = currPrefix THEN i ELSE overlapLength)

\* a variant that removes nothing
noDeduplication(previousText, currentText) == currentText

deduplicateOverlap(previousText, currentText) ==
    IF previousText = EmptyStr THEN currentText
    ELSE LET prevWords == splitWs(trim(previousText))
             currWords == splitWs(trim(currentText))
             maxOverlap == Min2(MaxOverlapWords, Min2(Len(prevWords), Len(currWords)))
             overlapLength == overlapLoop(prevWords, currWords, 1, maxOverlap, 0)
         IN  joinSp(sliceFrom(currWords, overlapLength))

\* a variant that keeps only the text of the last segment
addChunkTextReplacing(sessionText, previousChunkText, text) ==
    LET deduplicatedText == deduplicateOverlap(previousChunkText, text)
    IN  [ sessionText |->
              IF deduplicatedText # EmptyStr THEN deduplicatedText ELSE sessionText,
          previousChunkText |-> text,
          deduplicatedText |-> deduplicatedText ]

\* addChunkText on the manager's two fields; the result is the new pair and
\* the de-duplicated text returned to the caller
addChunkText(sessionText, previousChunkText, text) ==
    LET deduplicatedText == deduplicateOverlap(previousChunkText, text)
    IN  [ sessionText |->
              IF deduplicatedText # EmptyStr
              THEN sessionText
                     \o (IF sessionText # EmptyStr THEN << Space >> ELSE << >>)
                     \o deduplicatedText
              ELSE sessionText,
          previousChunkText |-> text,
          deduplicatedText |-> deduplicatedText ]


(***************************************************************************)
(* State                                                                   *)
(***************************************************************************)
VARIABLES
    \* SpeechService
    state,              \* SpeechState: "idle", "recording", "transcribing"
    mode,               \* RecordingMode: "batch", "streaming"
    ffmpegProcess,      \* the handle held, a process id, 0 for null
    streamingDir,       \* the working directory, 0 for null
    chunkCounter,
    streamingConfig,
    \* StreamingManager
    sessionText,
    previousChunkText,
    \* ChunkProcessor
    cpProcess,          \* ChunkProcessor.ffmpegProcess, 0 for null
    outputDir,          \* 0 for ""
    isWatching,
    \* the environment: child processes, suspended calls
    procs,              \* the child processes, by id, with their listeners
    starts,             \* suspended calls of startStreamingRecording
    stops,              \* suspended calls of stopStreamingRecording, oldest first
    units,              \* suspended calls of handleChunkReady, oldest first
    \* what the step just taken has emitted and returned, in order
    out,
    \* stops accepted whose streamingComplete event is still to be emitted
    owed,
    \* calls of addChunkText since the manager was last reset
    merged,
    \* the listeners that handleStartStreamingSpeech has attached to the service
    listeners,
    \* the messages that the step just taken has posted to the webview, in order
    posted,
    \* PartialMessageManager
    partialStates,      \* the Map, by message key; NoState for a key it lacks
    \* the task that asks: Task.askResponse ("undefined" until the user
    \* answers) and the timestamp of the last message
    askResponse,
    lastMessageTs,
    \* the wait conditions that getWaitCondition has returned and that are
    \* still held, by their caller or by the pWaitFor of waitForResponse
    conditions,
    \* for each message key, the last of registerPartialMessage,
    \* startPartialCompletion and cleanupState that was called for it
    lifecycle,
    \* the limits of the behaviours explored (fixed by the initial state):
    \* processes alive at a time, segment files per process, stops suspended
    lim

vars == << state, mode, ffmpegProcess, streamingDir, chunkCounter, streamingConfig,
           sessionText, previousChunkText, cpProcess, outputDir, isWatching,
           procs, starts, stops, units, out, owed, merged, listeners, posted,
           partialStates, askResponse, lastMessageTs, conditions, lifecycle, lim >>

\* the PartialMessageManager and the task that uses it
pmVars == << partialStates, askResponse, lastMessageTs, conditions, lifecycle >>

\* the fields of SpeechService and of the two modules it owns
svcVars == << state, mode, ffmpegProcess, streamingDir, chunkCounter, streamingConfig,
              sessionText, previousChunkText, cpProcess, outputDir, isWatching >>

\* the world: every variable as a field of one record; a step starts with
\* nothing emitted
W == [ state |-> state, mode |-> mode, ffmpegProcess |-> ffmpegProcess,
       streamingDir |-> streamingDir, chunkCounter |-> chunkCounter,
       streamingConfig |-> streamingConfig, sessionText |-> sessionText,
       previousChunkText |-> previousChunkText, cpProcess |-> cpProcess,
       outputDir |-> outputDir, isWatching |-> isWatching, procs |-> procs,
       starts |-> starts, stops |-> stops, units |-> units, out |-> << >>,
       owed |-> owed, merged |-> merged, listeners |-> listeners, lim |-> lim ]

\* the larger exploration has one process more alive at a time
TwoStarts == MaxStarts + 1
ProcIds == 1..TwoStarts
StopIds == 1..MaxStops

\* the configurations a caller passes, after the defaults are merged in: the
\* default one, one with a segment cap, one whose overlap is not below the
\* segment duration
DefaultConfig == [ chunkDurationSeconds |-> 3, overlapDurationSeconds |-> 1, maxChunks |-> 0 ]
CappedConfig == [ chunkDurationSeconds |-> 3, overlapDurationSeconds |-> 1, maxChunks |-> 1 ]
BadConfig == [ chunkDurationSeconds |-> 1, overlapDurationSeconds |-> 1, maxChunks |-> 0 ]
Configs == { DefaultConfig, CappedConfig, BadConfig }

\* what is said in each segment file, as the transcription client returns it
\* (trimmed and never empty): consecutive segments overlap by one word, which
\* the transcription may capitalize differently
SpokenText(file) ==
    IF file % 3 = 0 THEN << "a", " ", "b" >>
    ELSE IF file % 3 = 1 THEN << "B", " ", "c" >>
    ELSE << "c", " ", "a" >>

\* a child process: st is "none" (not spawned), "running", "failed" (the spawn
\* failed and 'error' is still to be emitted) or "gone" (exited, or 'error'
\* emitted); sig is the strongest signal delivered; seg the number of segment
\* files reported; then the listeners attached: the ChunkProcessor's three
\* and the 'error' listeners of startStreamingRecording and of startRecording;
\* pending is the text the process has still to write to stderr and got the
\* text it has written (used where the detector's reading is explored), lost
\* the length of the part of it written while stderr had no 'data' listener
NoProc == [ st |-> "none", sig |-> "none", seg |-> 0,
            data |-> FALSE, cpExit |-> FALSE, cpError |-> FALSE, svcError |-> FALSE,
            batchError |-> FALSE, pending |-> << >>, got |-> << >>, lost |-> 0 ]
Gone == [NoProc EXCEPT !.st = "gone"]

\* the process ids something still refers to
Referenced(w) ==
    {w.ffmpegProcess, w.cpProcess}
        \cup { s.id : s \in w.starts }
        \cup { w.stops[i].proc : i \in 1..Len(w.stops) }
        \cup { w.units[i].proc : i \in 1..Len(w.units) }

\* the record of a process that has ended is dropped, and its id free again,
\* once nothing refers to it
Collect(w) ==
    [w EXCEPT !.procs = [p \in ProcIds |->
                            IF @[p].st = "gone" /\ p \notin Referenced(w) THEN NoProc
                            ELSE @[p]]]

FreeIds(w) ==
    LET free == { p \in ProcIds : w.procs[p].st = "none" /\ p \notin Referenced(w) }
    IN  IF Cardinality(ProcIds \ free) < w.lim.starts THEN free ELSE {}

\* the places of o, what a step has emitted and returned, with an entry of
\* the type given
Emitted(o, type) == { i \in 1..Len(o) : o[i].type = type }

\* The listeners of handleStartStreamingSpeech.  A call of the handler
\* attaches three listeners (progressiveUpdate, streamingComplete,
\* streamingError), always together, and its error and complete listeners
\* detach its three.  awaiting: the calls waiting for the result of
\* startStreamingRecording, by the id of the process of their start, with
\* own: their listeners are still attached; posting: the calls whose start
\* has failed, posting speechStreamingError before they detach their
\* listeners, which are still attached; attached: the listener sets left
\* attached by the calls that have ended.  stopping: the calls of
\* handleStopStreamingSpeech waiting for the result of
\* stopStreamingRecording, by the id of their stop (0: the call being made).
NoListeners == [ attached |-> 0, posting |-> 0, awaiting |-> {}, stopping |-> {} ]

\* the listener sets attached to the service
Triples(l) == l.attached + l.posting + Cardinality({ c \in l.awaiting : c.own })

\* the listeners after a step of the service: streamingComplete and
\* streamingError, when emitted, run every listener attached to them; then
\* the handler calls whose start has returned go on, to their end on
\* success and to posting the error on failure
Deliver(w) ==
    LET o == w.out
        l == w.listeners
        ended == \E i \in 1..Len(o) : o[i].type \in {"streamingComplete", "streamingError"}
        l1 == IF ended
              THEN [l EXCEPT !.attached = 0, !.posting = 0,
                             !.awaiting = { [c EXCEPT !.own = FALSE] : c \in @ }]
              ELSE l
        back == { c \in l1.awaiting : c.id \notin { s.id : s \in w.starts } }
        ok == \E i \in 1..Len(o) :
                  o[i].type = "return" /\ o[i].op = "start" /\ o[i].res = "ok"
        own == Cardinality({ c \in back : c.own })
        suspended == { w.stops[i].id : i \in 1..Len(w.stops) }
        called == IF 0 \in l.stopping /\ Emitted(o, "return") = {}
                  THEN { w.stops[Len(w.stops)].id } ELSE {}
    IN  [ attached |-> l1.attached + (IF ok THEN own ELSE 0),
          posting |-> l1.posting + (IF ok THEN 0 ELSE own),
          awaiting |-> l1.awaiting \ back,
          stopping |-> ((l.stopping \ {0}) \cap suspended) \cup called ]

\* a message posted to the webview (provider.postMessageToWebview)
Msg(type, text) == [ type |-> type, text |-> text ]

\* the calls of stopStreamingRecording that return in the step to w, oldest
\* first: TRUE for those made by handleStopStreamingSpeech (a call by
\* another caller that returns at once is not in it)
StopReturnsBy(w) ==
    IF 0 \in w.listeners.stopping THEN << TRUE >>
    ELSE LET suspended == { w.stops[i].id : i \in 1..Len(w.stops) }
             IsBack(t) == t.id \notin suspended /\ ~t.auto
             back == SelectSeq(stops, IsBack)
         IN  [k \in 1..Len(back) |-> back[k].id \in w.listeners.stopping]

\* a call of handleStartStreamingSpeech gets the result of its start in the
\* step to w: one that was waiting for it, or one refused at once
StartReturnsBy(w) ==
    \/ \E c \in w.listeners.awaiting : c.id \notin { s.id : s \in w.starts }
    \/ w.listeners.posting > listeners.posting

\* handleStopStreamingSpeech's test: result.success && result.finalText
stopSucceeded(res, finalText) == res = "ok" /\ finalText # EmptyStr

\* the messages posted for the entries of o from the i-th on: by the n
\* listener sets attached (progressiveUpdateHandler, streamingCompleteHandler,
\* streamingErrorHandler, the last two detaching the set), by the calls of
\* handleStopStreamingSpeech, of which the k-th to return is next, and by
\* the call of handleStartStreamingSpeech; finalText: the text of the last
\* streamingComplete
RECURSIVE PostFrom(_, _, _, _, _, _, _)
PostFrom(o, i, n, finalText, byStop, k, byStart) ==
    IF i > Len(o) THEN << >>
    ELSE LET e == o[i]
         IN  IF e.type = "progressiveUpdate"
             THEN [j \in 1..n |-> Msg("speechStreamingProgress", e.text)]
                      \o PostFrom(o, i + 1, n, finalText, byStop, k, byStart)
             ELSE IF e.type = "streamingComplete"
             THEN [j \in 1..n |-> Msg("speechStreamingStopped", e.finalText)]
                      \o PostFrom(o, i + 1, 0, e.finalText, byStop, k, byStart)
             ELSE IF e.type = "streamingError"
             THEN [j \in 1..n |-> Msg("speechStreamingError", EmptyStr)]
                      \o PostFrom(o, i + 1, 0, finalText, byStop, k, byStart)
             ELSE IF e.type = "return" /\ e.op = "stop"
             THEN (IF k > Len(byStop) \/ ~byStop[k] THEN << >>
                   ELSE IF stopSucceeded(e.res, finalText)
                   THEN << Msg("speechStreamingStopped", finalText) >>
                   ELSE << Msg("speechStreamingError", EmptyStr) >>)
                      \o PostFrom(o, i + 1, n, finalText, byStop, k + 1, byStart)
             ELSE IF e.type = "return" /\ e.op = "start"
             THEN (IF ~byStart THEN << >>
                   ELSE IF e.res = "ok"
                   THEN << Msg("speechStreamingStarted", EmptyStr) >>
                   ELSE << Msg("speechStreamingError", EmptyStr) >>)
                      \o PostFrom(o, i + 1, n, finalText, byStop, k, byStart)
             ELSE PostFrom(o, i + 1, n, finalText, byStop, k, byStart)

\* the messages posted in the step to w
Post(w) ==
    PostFrom(w.out, 1, Triples(w.listeners), EmptyStr, StopReturnsBy(w), 1,
             StartReturnsBy(w))

\* the world is bound once, so that it is computed once for all the variables
Commit(w0) ==
    \E w \in { Collect(w0) } :
        /\ state' = w.state /\ mode' = w.mode /\ ffmpegProcess' = w.ffmpegProcess
        /\ streamingDir' = w.streamingDir /\ chunkCounter' = w.chunkCounter
        /\ streamingConfig' = w.streamingConfig /\ sessionText' = w.sessionText
        /\ previousChunkText' = w.previousChunkText /\ cpProcess' = w.cpProcess
        /\ outputDir' = w.outputDir /\ isWatching' = w.isWatching /\ procs' = w.procs
        /\ starts' = w.starts /\ stops' = w.stops /\ units' = w.units /\ out' = w.out
        /\ owed' = w.owed /\ merged' = w.merged /\ lim' = w.lim
        /\ listeners' = Deliver(w)
        /\ posted' = Post(w)
        /\ UNCHANGED pmVars

\* ChildProcess.killed: a signal was sent successfully (not: the process ended)
killed(w, p) == w.procs[p].sig # "none"

Return(w, op, res) == [w EXCEPT !.out = Append(@, [ type |-> "return", op |-> op, res |-> res ])]

\* a sequence without its i-th element
Without(seq, i) == SubSeq(seq, 1, i - 1) \o SubSeq(seq, i + 1, Len(seq))

\* message keys, timestamps, and the wait conditions held at a time
MaxKeys == 2
MaxTs == 2
MaxConditions == 1
MessageKeys == 1..MaxKeys
Timestamps == 1..MaxTs

\* the value of partialStates for a key the Map lacks, a PartialMessageState
\* otherwise (originalTs 0: undefined)
NoState == [ has |-> FALSE, messageTs |-> 0, isCompleting |-> FALSE,
             wasPartialCompletion |-> FALSE, originalTs |-> 0 ]

\* new PartialMessageManager(), in a task that has asked nothing yet
InitPartialFields ==
    /\ partialStates = [k \in MessageKeys |-> NoState]
    /\ askResponse = "undefined" /\ lastMessageTs = 1
    /\ conditions = {}
    /\ lifecycle = [k \in MessageKeys |-> "never"]

InitFields ==
    /\ InitPartialFields
    /\ state = "idle" /\ mode = "batch" /\ ffmpegProcess = 0 /\ streamingDir = 0
    /\ chunkCounter = 0 /\ streamingConfig = DefaultConfig
    /\ sessionText = EmptyStr /\ previousChunkText = EmptyStr
    /\ cpProcess = 0 /\ outputDir = 0 /\ isWatching = FALSE
    /\ procs = [p \in ProcIds |-> NoProc]
    /\ starts = {} /\ stops = << >> /\ units = << >>
    /\ out = << >> /\ owed = 0 /\ merged = 0
    /\ listeners = NoListeners /\ posted = << >>

Init ==
    /\ InitFields
    /\ lim = [ starts |-> MaxStarts, ready |-> MaxReady, stops |-> MaxStops ]

\* the larger exploration: one process more, fewer segments and stops
InitTwo ==
    /\ InitFields
    /\ lim = [ starts |-> TwoStarts, ready |-> SmallReady, stops |-> SmallStops ]

(***************************************************************************)
(* Child processes (node's ChildProcess)                                   *)
(***************************************************************************)
\* subprocess.kill(signal): a process that is running gets the signal and its
\* .killed flag becomes true; on a process that has ended, or whose spawn
\* failed, nothing happens
kill(w, p, signal) ==
    IF w.procs[p].st = "running"
    THEN [w EXCEPT !.procs[p].sig = IF @ = "SIGKILL" THEN @ ELSE signal]
    ELSE w

(***************************************************************************)
(* ChunkProcessor                                                          *)
(***************************************************************************)
\* removeAllListeners("data" / "exit" / "error") on the process watched takes
\* away every listener of these events, also those the service registered
\* a variant that leaves the 'data' listener on stderr
stopWatchingKeepsData(w) ==
    IF ~w.isWatching THEN w
    ELSE LET p == w.cpProcess
             w1 == IF p # 0
                   THEN [w EXCEPT !.procs[p].cpExit = FALSE,
                                  !.procs[p].cpError = FALSE,
                                  !.procs[p].svcError = FALSE,
                                  !.procs[p].batchError = FALSE,
                                  !.stops = [i \in 1..Len(@) |->
                                               IF @[i].proc = p
                                               THEN [@[i] EXCEPT !.exitL = FALSE]
                                               ELSE @[i]]]
                   ELSE w
         IN  [w1 EXCEPT !.cpProcess = 0, !.outputDir = 0, !.isWatching = FALSE]

stopWatching(w) ==
    IF ~w.isWatching THEN w
    ELSE LET p == w.cpProcess
             w1 == IF p # 0
                   THEN [w EXCEPT !.procs[p].data = FALSE,
                                  !.procs[p].cpExit = FALSE,
                                  !.procs[p].cpError = FALSE,
                                  !.procs[p].svcError = FALSE,
                                  !.procs[p].batchError = FALSE,
                                  !.stops = [i \in 1..Len(@) |->
                                               IF @[i].proc = p
                                               THEN [@[i] EXCEPT !.exitL = FALSE]
                                               ELSE @[i]]]
                   ELSE w
         IN  [w1 EXCEPT !.cpProcess = 0, !.outputDir = 0, !.isWatching = FALSE]

\* a variant that records the process and attaches no listener
startWatchingFieldsOnly(w, p, dir) ==
    LET w1 == IF w.isWatching THEN stopWatching(w) ELSE w
    IN  [w1 EXCEPT !.cpProcess = p, !.outputDir = dir, !.isWatching = TRUE]

startWatching(w, p, dir) ==
    LET w1 == IF w.isWatching THEN stopWatching(w) ELSE w
    IN  [w1 EXCEPT !.cpProcess = p, !.outputDir = dir, !.isWatching = TRUE,
                   !.procs[p].data = TRUE, !.procs[p].cpExit = TRUE,
                   !.procs[p].cpError = TRUE]

\* this.emit("complete") and this.emit("chunkError", error) of the detector
emitComplete(w) == [w EXCEPT !.out = Append(@, [ type |-> "complete" ])]
emitChunkError(w) == [w EXCEPT !.out = Append(@, [ type |-> "chunkError" ])]

(***************************************************************************)
(* SpeechService                                                           *)
(***************************************************************************)
\* this.emit("streamingError", message)
emitStreamingError(w) == [w EXCEPT !.out = Append(@, [ type |-> "streamingError" ])]

resetStreamingState(w) ==
    LET w1 == stopWatching(w)
    IN  [w1 EXCEPT !.sessionText = EmptyStr, !.previousChunkText = EmptyStr,
                   !.merged = 0,
                   !.state = "idle", !.mode = "batch", !.ffmpegProcess = 0,
                   !.streamingDir = 0, !.chunkCounter = 0]

\* resetState, the batch-mode reset (the recording path is not modelled)
resetState(w) == [w EXCEPT !.state = "idle", !.mode = "batch", !.ffmpegProcess = 0]

\* the segments in flight of process p get the fate of their session
Fate(w, p, fate) ==
    [w EXCEPT !.units = [i \in 1..Len(@) |->
                            IF @[i].proc = p /\ @[i].fate = "live"
                            THEN [@[i] EXCEPT !.fate = fate] ELSE @[i]]]

\* a variant that emits the event only when there is text to report
emitStreamingCompleteIfText(w, finalText, totalChunks) ==
    IF finalText = EmptyStr THEN w
    ELSE [w EXCEPT !.owed = @ - 1,
                   !.out = Append(@, [ type |-> "streamingComplete",
                                       finalText |-> finalText,
                                       totalChunks |-> totalChunks,
                                       merged |-> w.merged ])]

\* this.emit("streamingComplete", finalText, totalChunks)
emitStreamingComplete(w, finalText, totalChunks) ==
    [w EXCEPT !.owed = @ - 1,
              !.out = Append(@, [ type |-> "streamingComplete",
                                  finalText |-> finalText,
                                  totalChunks |-> totalChunks,
                                  merged |-> w.merged ])]

\* stopStreamingRecording from the end of its wait on (t is the suspended
\* call): the handle is dropped, the counter and the text are read, the event
\* is emitted, the state is reset
finishStop(w, t) ==
    LET w2 == IF t.proc # 0 THEN [w EXCEPT !.ffmpegProcess = 0] ELSE w
        totalChunks == w2.chunkCounter
        finalText == w2.sessionText
        w3 == emitStreamingComplete(w2, finalText, totalChunks)
        w4 == resetStreamingState(w3)
        w5 == IF t.proc # 0 THEN Fate(w4, t.proc, "stopped") ELSE w4
    IN  IF t.auto THEN w5 ELSE Return(w5, "stop", "ok")

\* a variant of the guard that does not look at the mode
NotRecordingState(w) == w.state # "recording"

\* the guard of stopStreamingRecording
NotStreaming(w) == w.state # "recording" \/ w.mode # "streaming"

\* stopStreamingRecording up to its wait for the process; auto: called by
\* handleChunkReady at the segment cap, which drops the result
stopStreamingRecording(w, auto) ==
    IF NotStreaming(w)
    THEN IF auto THEN w ELSE Return(w, "stop", "NotStreaming")
    ELSE LET w1 == [w EXCEPT !.state = "transcribing", !.owed = @ + 1]
             w2 == stopWatching(w1)
             p == w2.ffmpegProcess
             used == { w2.stops[i].id : i \in 1..Len(w2.stops) }
             id == CHOOSE k \in StopIds \ used : \A j \in StopIds \ used : k <= j
             t == [ id |-> IF p # 0 THEN id ELSE 0, proc |-> p, exitL |-> p # 0,
                    auto |-> auto ]
         IN  IF p # 0
             THEN [kill(w2, p, "SIGTERM") EXCEPT !.stops = Append(@, t)]
             ELSE finishStop(w2, t)

\* the 2000 ms timer of the i-th suspended stop
stopTimeout(w, i) ==
    LET p == w.ffmpegProcess
        w1 == IF p # 0 /\ ~killed(w, p) THEN kill(w, p, "SIGKILL") ELSE w
    IN  finishStop([w1 EXCEPT !.stops = Without(@, i)], w.stops[i])

cancelRecording(w) ==
    IF w.state # "recording"
    THEN Return(w, "cancel", "NotRecording")
    ELSE LET p == w.ffmpegProcess
             w1 == IF p # 0
                   THEN [Fate(kill(w, p, "SIGKILL"), p, "cancelled")
                            EXCEPT !.ffmpegProcess = 0]
                   ELSE w
             w2 == IF w1.mode = "streaming" THEN resetStreamingState(w1)
                                            ELSE resetState(w1)
         IN  Return(w2, "cancel", "ok")

dispose(w) ==
    LET p == w.ffmpegProcess
        w1 == IF p # 0 THEN Fate(kill(w, p, "SIGKILL"), p, "disposed") ELSE w
    IN  resetStreamingState(w1)


\* handleChunkReady up to its wait for the transcription.  fate and overtaken
\* are history: what became of the segment's session, and whether a segment
\* that arrived later has been merged before this one
handleChunkReady(w, chunkPath) ==
    LET chunkId == w.chunkCounter
    IN  [w EXCEPT !.chunkCounter = @ + 1,
                  !.units = Append(@, [ chunkId |-> chunkId, proc |-> chunkPath.proc,
                                        path |-> chunkPath, fate |-> "live",
                                        overtaken |-> FALSE ])]

(***************************************************************************)
(* The text FFmpeg writes to stderr, as a sequence of tokens (a data event *)
(* may end between any two of them):                                       *)
(*   closing    Closing '             (in any case: the patterns have /i)  *)
(*   opening    Opening '                                                  *)
(*   segment    [segment @ 0x..] segment:'                                 *)
(*   quote      '                                                          *)
(*   ended      count:N ended                                              *)
(*   nl         the end of the line                                        *)
(*   noise      any other text, without quote                              *)
(*   chunkName  chunk_NNN.webm, chunkPath  /dir/chunk_NNN.webm,            *)
(*   otherName  a file name of another scheme                              *)
(* n is the number NNN of a name, 0 otherwise.                             *)
(***************************************************************************)
Tok(t, n) == [ t |-> t, n |-> n ]

ClosingLine(n) == << Tok("closing", 0), Tok("chunkName", n), Tok("quote", 0), Tok("nl", 0) >>
ClosingPathLine(n) == << Tok("closing", 0), Tok("chunkPath", n), Tok("quote", 0), Tok("nl", 0) >>
ClosingOtherLine == << Tok("closing", 0), Tok("otherName", 0), Tok("quote", 0), Tok("nl", 0) >>
SegmentLine(n) ==
    << Tok("segment", 0), Tok("chunkName", n), Tok("quote", 0), Tok("ended", 0), Tok("nl", 0) >>
OpeningLine(n) == << Tok("opening", 0), Tok("chunkName", n), Tok("quote", 0), Tok("nl", 0) >>
NoiseLine == << Tok("noise", 0), Tok("nl", 0) >>

\* the tokens with a ' in them (the ' is their last character)
HasQuote(tok) == tok.t \in {"closing", "opening", "segment", "quote"}

NoMatch == [ found |-> FALSE, name |-> Tok("none", 0) ]

\* '([^']+)' from the ' that ends token i on: the capture runs to the next ',
\* which must exist, and must not be empty.  The result is the index of the
\* token with the closing ' (0: no match)
CaptureEnd(text, i) ==
    LET js == { j \in (i + 1)..Len(text) : HasQuote(text[j]) }
        j == CHOOSE x \in js : \A y \in js : x <= y
    IN  IF js = {} THEN 0
        ELSE IF j = i + 1 /\ text[j].t = "quote" THEN 0
        ELSE j

\* the text captured: a file name when the capture is one name token, and
\* something that is no file name of any scheme otherwise
Captured(text, i, j) ==
    IF j = i + 2 /\ text[j].t = "quote"
          /\ text[i + 1].t \in {"chunkName", "chunkPath", "otherName"}
    THEN text[i + 1]
    ELSE Tok("garbage", 0)

\* text.match(/Closing '([^']+)'/i): the leftmost match
closingMatch(text) ==
    LET is == { i \in 1..Len(text) : text[i].t = "closing" /\ CaptureEnd(text, i) # 0 }
        i == CHOOSE x \in is : \A y \in is : x <= y
    IN  IF is = {} THEN NoMatch
        ELSE [ found |-> TRUE, name |-> Captured(text, i, CaptureEnd(text, i)) ]

\* .*ended after token j: an "ended" later on the same line
EndedAfter(text, j) ==
    \E e \in (j + 1)..Len(text) :
        text[e].t = "ended" /\ \A x \in (j + 1)..(e - 1) : text[x].t # "nl"

\* text.match(/segment:'([^']+)'.*ended/i): the leftmost match
segmentMatch(text) ==
    LET is == { i \in 1..Len(text) :
                  /\ text[i].t = "segment" /\ CaptureEnd(text, i) # 0
                  /\ EndedAfter(text, CaptureEnd(text, i)) }
        i == CHOOSE x \in is : \A y \in is : x <= y
    IN  IF is = {} THEN NoMatch
        ELSE [ found |-> TRUE, name |-> Captured(text, i, CaptureEnd(text, i)) ]

\* path.basename
basename(tok) == IF tok.t = "chunkPath" THEN Tok("chunkName", tok.n) ELSE tok

\* a variant of the test below that accepts every file name
AnyName(tok) == tok.t \in {"chunkName", "chunkPath", "otherName"}

\* chunkFileName.startsWith("chunk_") && chunkFileName.endsWith(".webm")
ValidName(tok) == tok.t = "chunkName"

\* handleStderrData for one data event of the process watched: on a match
\* chunkReady is emitted, and the service's listener runs
handleStderrData(w, p, text) ==
    LET c == closingMatch(text)
        g == segmentMatch(text)
    IN  IF c.found /\ ValidName(basename(c.name))
        THEN handleChunkReady(w, [ proc |-> p, file |-> c.name.n ])
        ELSE IF g.found /\ ValidName(basename(g.name))
        THEN handleChunkReady(w, [ proc |-> p, file |-> g.name.n ])
        ELSE w

\* this.emit("progressiveUpdate", result), for the suspended call u
emitProgressiveUpdate(w, u) ==
    [w EXCEPT !.out = Append(@, [ type |-> "progressiveUpdate",
                                  chunkId |-> u.chunkId, sequenceNumber |-> u.chunkId,
                                  text |-> w.sessionText,
                                  file |-> u.path.file,
                                  fate |-> u.fate, overtaken |-> u.overtaken ])]

\* the segment cap of handleChunkReady
CapReached(w) ==
    w.streamingConfig.maxChunks > 0 /\ w.chunkCounter >= w.streamingConfig.maxChunks

\* handleChunkReady from the transcription's result on, for the i-th
\* suspended call
chunkTranscribed(w, i, rawText) ==
    LET u == w.units[i]
        a == addChunkText(w.sessionText, w.previousChunkText, rawText)
        marked == [j \in 1..Len(w.units) |->
                      IF j < i /\ w.units[j].proc = u.proc
                      THEN [w.units[j] EXCEPT !.overtaken = TRUE] ELSE w.units[j]]
        w1 == [w EXCEPT !.units = Without(marked, i),
                        !.sessionText = a.sessionText,
                        !.merged = @ + 1,
                        !.previousChunkText = a.previousChunkText]
        w2 == emitProgressiveUpdate(w1, u)
    IN  IF CapReached(w2) THEN stopStreamingRecording(w2, TRUE) ELSE w2

\* a variant of the catch that gives the session up
chunkFailedAborts(w, i) ==
    emitStreamingError(resetStreamingState([w EXCEPT !.units = Without(@, i)]))

\* handleChunkReady's catch
chunkFailed(w, i) == emitStreamingError([w EXCEPT !.units = Without(@, i)])

\* a variant of the guard that asks for a process as well
RecordingWithProcess(w) == w.state = "recording" /\ w.ffmpegProcess # 0

\* a variant of the validation that lets overlap = duration pass
OverlapAbove(config) == config.overlapDurationSeconds > config.chunkDurationSeconds

\* the guard of startStreamingRecording
AlreadyRecording(w) == w.state = "recording"

\* the validation of startStreamingRecording
OverlapInvalid(config) == config.overlapDurationSeconds >= config.chunkDurationSeconds

\* startStreamingRecording up to its first wait (checkFFmpegAvailability);
\* id: the id the process of this call will get
startStreamingRecording(w, config, id) ==
    IF AlreadyRecording(w)
    THEN Return(w, "start", "AlreadyRecording")
    ELSE LET w1 == [w EXCEPT !.state = "recording", !.mode = "streaming",
                             !.streamingConfig = config]
         IN  IF OverlapInvalid(config)
             THEN Return(w1, "start", "OverlapError")
             ELSE [w1 EXCEPT !.starts = @ \cup {[ id |-> id, pc |-> "check" ]}]

\* ... from the result of checkFFmpegAvailability to the wait for fs.mkdir
startAfterCheck(w, s, available) ==
    IF ~available
    THEN Return([w EXCEPT !.state = "idle", !.starts = @ \ {s}],
                "start", "FFmpegUnavailable")
    ELSE [w EXCEPT !.streamingDir = s.id,
                   !.starts = (@ \ {s}) \cup {[s EXCEPT !.pc = "mkdir"]}]

\* ... from the result of fs.mkdir to the wait for the 500 ms timer: the
\* process is spawned and watched.  outcome: "throw" (mkdir or spawn throws),
\* "noconfig" (getFFmpegConfig gives null), "spawned", "spawnfails" (spawn
\* returns a handle and the process emits 'error' later)
startAfterMkdir(w, s, outcome) ==
    IF outcome = "throw"
    THEN Return([w EXCEPT !.state = "idle", !.mode = "batch", !.starts = @ \ {s}],
                "start", "Exception")
    ELSE IF outcome = "noconfig"
    THEN Return([w EXCEPT !.state = "idle", !.starts = @ \ {s}],
                "start", "UnsupportedPlatform")
    ELSE LET p == s.id
             w1 == [w EXCEPT !.procs[p] =
                                 [NoProc EXCEPT !.st = IF outcome = "spawned"
                                                       THEN "running" ELSE "failed"],
                             !.ffmpegProcess = p,
                             !.chunkCounter = 0,
                             !.sessionText = EmptyStr,
                             !.previousChunkText = EmptyStr,
                             !.merged = 0]
             w2 == startWatching(w1, p, w1.streamingDir)
         IN  [w2 EXCEPT !.procs[p].svcError = TRUE,
                        !.starts = (@ \ {s}) \cup {[s EXCEPT !.pc = "window"]}]

\* the 500 ms timer of startStreamingRecording: the promise is resolved only
\* when the state is still RECORDING
startTimer(w, s) ==
    IF w.state = "recording"
    THEN Return([w EXCEPT !.starts = @ \ {s}], "start", "ok")
    ELSE [w EXCEPT !.starts = (@ \ {s}) \cup {[s EXCEPT !.pc = "hung"]}]

(***************************************************************************)
(* Batch mode: startRecording (stopRecordingAndTranscribe is not modelled; *)
(* a batch recording ends by cancelRecording or dispose)                   *)
(***************************************************************************)
\* startRecording up to its first wait (checkFFmpegAvailability)
startRecording(w, id) ==
    IF w.state = "recording"
    THEN Return(w, "startRecording", "AlreadyRecording")
    ELSE [w EXCEPT !.state = "recording", !.mode = "batch",
                   !.starts = @ \cup {[ id |-> id, pc |-> "batchCheck" ]}]

\* ... from the result of checkFFmpegAvailability to the wait for fs.mkdir
recordAfterCheck(w, s, available) ==
    IF ~available
    THEN Return([w EXCEPT !.state = "idle", !.starts = @ \ {s}],
                "startRecording", "FFmpegUnavailable")
    ELSE [w EXCEPT !.starts = (@ \ {s}) \cup {[s EXCEPT !.pc = "batchMkdir"]}]

\* ... from the result of fs.mkdir to the wait for the 500 ms timer
recordAfterMkdir(w, s, outcome) ==
    IF outcome = "throw"
    THEN Return([w EXCEPT !.state = "idle", !.starts = @ \ {s}],
                "startRecording", "Exception")
    ELSE IF outcome = "noconfig"
    THEN Return([w EXCEPT !.state = "idle", !.starts = @ \ {s}],
                "startRecording", "UnsupportedPlatform")
    ELSE LET p == s.id
         IN  [w EXCEPT !.procs[p] =
                           [NoProc EXCEPT !.st = IF outcome = "spawned"
                                                 THEN "running" ELSE "failed",
                                          !.batchError = TRUE],
                       !.ffmpegProcess = p,
                       !.starts = (@ \ {s}) \cup {[s EXCEPT !.pc = "batchWindow"]}]

\* the 500 ms timer of startRecording
recordTimer(w, s) ==
    IF w.state = "recording"
    THEN Return([w EXCEPT !.starts = @ \ {s}], "startRecording", "ok")
    ELSE [w EXCEPT !.starts = (@ \ {s}) \cup {[s EXCEPT !.pc = "hung"]}]

\* the process emits 'error': the ChunkProcessor's listener (registered
\* first; it emits chunkError, which the service's listener turns into
\* streamingError) and then the listener of startStreamingRecording, when
\* attached
processError(w, p) ==
    LET w0 == [w EXCEPT !.procs[p] = Gone]
        w1 == IF w.procs[p].cpError
              THEN stopWatching(emitStreamingError(emitChunkError(w0)))
              ELSE w0
        pend == { s \in w1.starts : s.id = p }
    IN  IF w.procs[p].svcError
        THEN LET w2 == emitStreamingError(resetStreamingState(w1))
             IN  IF pend # {}
                 THEN Return([w2 EXCEPT !.starts = @ \ pend], "start", "ProcessError")
                 ELSE w2
        ELSE IF w.procs[p].batchError
        THEN LET w2 == resetState(w1)
             IN  IF pend # {}
                 THEN Return([w2 EXCEPT !.starts = @ \ pend], "startRecording",
                             "ProcessError")
                 ELSE w2
        ELSE w1

\* the listeners of 'exit' that suspended stops registered on p, run in the
\* order of registration
RECURSIVE finishStops(_, _)
finishStops(w, p) ==
    LET waiting == { i \in 1..Len(w.stops) : w.stops[i].proc = p /\ w.stops[i].exitL }
    IN  IF waiting = {} THEN w
        ELSE LET i == CHOOSE x \in waiting : \A y \in waiting : x <= y
             IN  finishStops(finishStop([w EXCEPT !.stops = Without(@, i)], w.stops[i]), p)

\* the process exits: the ChunkProcessor's listener (emit 'complete', which
\* the service only logs, then stopWatching), then the stops waiting for it
processExit(w, p) ==
    LET w0 == [w EXCEPT !.procs[p] = Gone]
        w1 == IF w.procs[p].cpExit THEN stopWatching(emitComplete(w0)) ELSE w0
    IN  finishStops(w1, p)

(***************************************************************************)
(* Actions                                                                 *)
(***************************************************************************)
CallStart(config) ==
    \/ /\ AlreadyRecording(W) \/ OverlapInvalid(config)
       /\ Commit(startStreamingRecording(W, config, 0))
    \/ /\ ~AlreadyRecording(W) /\ ~OverlapInvalid(config)
       /\ FreeIds(W) # {}
       /\ Commit(startStreamingRecording(W, config,
                     CHOOSE p \in FreeIds(W) : \A q \in FreeIds(W) : p <= q))

StartCheckDone(s, available) ==
    /\ s \in starts /\ s.pc = "check"
    /\ Commit(startAfterCheck(W, s, available))

StartMkdirDone(s, outcome) ==
    /\ s \in starts /\ s.pc = "mkdir"
    /\ Commit(startAfterMkdir(W, s, outcome))

StartTimer(s) ==
    /\ s \in starts /\ s.pc = "window"
    /\ Commit(startTimer(W, s))

CallStop ==
    /\ NotStreaming(W) \/ Len(stops) < lim.stops
    /\ Commit(stopStreamingRecording(W, FALSE))

StopTimeout(id) ==
    \E i \in 1..Len(stops) :
        /\ stops[i].id = id
        /\ Commit(stopTimeout(W, i))

CallCancel == Commit(cancelRecording(W))

CallDispose == Commit(dispose(W))

\* the process finalizes its next segment file and says so on stderr, in one
\* data event, where the ChunkProcessor listens
ProcStderr(p) ==
    /\ procs[p].st = "running" /\ procs[p].data
    /\ procs[p].seg < lim.ready
    /\ Commit(handleStderrData([W EXCEPT !.procs[p].seg = @ + 1], p,
                               ClosingLine(procs[p].seg)))

ProcExit(p) ==
    /\ procs[p].st = "running"
    /\ Commit(processExit(W, p))

ProcError(p) ==
    /\ procs[p].st = "failed"
    /\ Commit(processError(W, p))

TranscribeOk(i) ==
    /\ i \in 1..Len(units)
    /\ Len(stops) < lim.stops
    /\ Commit(chunkTranscribed(W, i, SpokenText(units[i].path.file)))

TranscribeFail(i) ==
    /\ i \in 1..Len(units)
    /\ Commit(chunkFailed(W, i))

Next ==
    \/ \E config \in Configs : CallStart(config)
    \/ \E s \in starts, available \in BOOLEAN : StartCheckDone(s, available)
    \/ \E s \in starts, outcome \in {"throw", "noconfig", "spawned", "spawnfails"} :
           StartMkdirDone(s, outcome)
    \/ \E s \in starts : StartTimer(s)
    \/ CallStop
    \/ \E id \in StopIds : StopTimeout(id)
    \/ CallCancel
    \/ CallDispose
    \/ \E p \in ProcIds : ProcStderr(p)
    \/ \E p \in ProcIds : ProcExit(p)
    \/ \E p \in ProcIds : ProcError(p)
    \/ \E i \in 1..Len(units) : TranscribeOk(i)
    \/ \E i \in 1..Len(units) : TranscribeFail(i)

Spec == Init /\ [][Next]_vars

(***************************************************************************)
(* The service with its batch mode                                         *)
(***************************************************************************)
CallStartRecording ==
    \/ /\ state = "recording"
       /\ Commit(startRecording(W, 0))
    \/ /\ state # "recording"
       /\ FreeIds(W) # {}
       /\ Commit(startRecording(W, CHOOSE p \in FreeIds(W) : \A q \in FreeIds(W) : p <= q))

RecordCheckDone(s, available) ==
    /\ s \in starts /\ s.pc = "batchCheck"
    /\ Commit(recordAfterCheck(W, s, available))

RecordMkdirDone(s, outcome) ==
    /\ s \in starts /\ s.pc = "batchMkdir"
    /\ Commit(recordAfterMkdir(W, s, outcome))

RecordTimer(s) ==
    /\ s \in starts /\ s.pc = "batchWindow"
    /\ Commit(recordTimer(W, s))

NextBatch ==
    \/ Next
    \/ CallStartRecording
    \/ \E s \in starts, available \in BOOLEAN : RecordCheckDone(s, available)
    \/ \E s \in starts, outcome \in {"throw", "noconfig", "spawned", "spawnfails"} :
           RecordMkdirDone(s, outcome)
    \/ \E s \in starts : RecordTimer(s)

InitBatch ==
    /\ InitFields
    /\ lim = [ starts |-> MaxStarts, ready |-> SmallReady, stops |-> SmallStops ]

SpecBatch == InitBatch /\ [][NextBatch]_vars

SpecTwo == InitTwo /\ [][Next]_vars

(***************************************************************************)
(* The detector reading the text of a running session                      *)
(***************************************************************************)
Lines ==
    { ClosingLine(0), ClosingLine(1), ClosingPathLine(1), ClosingOtherLine,
      SegmentLine(0), OpeningLine(1), NoiseLine }

RECURSIVE StreamsOf(_)
StreamsOf(n) ==
    IF n = 0 THEN { << >> }
    ELSE LET r == StreamsOf(n - 1) IN r \cup { a \o l : a \in r, l \in Lines }

\* the state after a start that has succeeded, the process having some lines
\* to write
InitDetector ==
    /\ state = "recording" /\ mode = "streaming" /\ ffmpegProcess = 1 /\ streamingDir = 1
    /\ chunkCounter = 0 /\ streamingConfig = DefaultConfig
    /\ sessionText = EmptyStr /\ previousChunkText = EmptyStr
    /\ cpProcess = 1 /\ outputDir = 1 /\ isWatching = TRUE
    /\ \E stream \in StreamsOf(MaxLines) :
          procs = [p \in ProcIds |->
                     IF p = 1
                     THEN [NoProc EXCEPT !.st = "running", !.data = TRUE, !.cpExit = TRUE,
                                         !.cpError = TRUE, !.svcError = TRUE,
                                         !.pending = stream]
                     ELSE NoProc]
    /\ starts = {} /\ stops = << >> /\ units = << >>
    /\ out = << >> /\ owed = 0 /\ merged = 0
    /\ listeners = NoListeners /\ posted = << >>
    /\ InitPartialFields
    /\ lim = [ starts |-> MaxStarts, ready |-> 0, stops |-> SmallStops ]

\* the process writes the next k tokens, which stderr delivers as one data
\* event to the listener attached; with no listener the text is dropped
StderrData(p, k) ==
    /\ procs[p].st = "running"
    /\ k \in 1..Len(procs[p].pending)
    /\ LET text == SubSeq(procs[p].pending, 1, k)
           w1 == [W EXCEPT !.procs[p].pending = SubSeq(@, k + 1, Len(@)),
                           !.procs[p].got = @ \o text]
       IN  IF procs[p].data
           THEN Commit(handleStderrData(w1, p, text))
           ELSE Commit([w1 EXCEPT !.procs[p].lost = @ + k])

NextDetector ==
    \/ \E p \in ProcIds : \E k \in 1..Len(procs[p].pending) : StderrData(p, k)
    \/ CallStop

SpecDetector == InitDetector /\ [][NextDetector]_vars

\* ... and the segments it reports being transcribed and merged
NextSegments ==
    \/ NextDetector
    \/ \E i \in 1..Len(units) : TranscribeOk(i)
    \/ \E i \in 1..Len(units) : TranscribeFail(i)

SpecSegments == InitDetector /\ [][NextSegments]_vars

(***************************************************************************)
(* The StreamingManager alone, given the texts of successive segments      *)
(***************************************************************************)
\* calls of addChunkText between two resets
MaxMerges == 3

\* texts as the transcription client returns them: trimmed and not empty;
\* with one word or more repeated from the text before, in another case,
\* with a run of two spaces, with more words than the look-back
TextAB ==
    << "a", " ", "b" >>
TextBc ==
    << "B", " ", "c" >>
TextCA ==
    << "c", " ", "a" >>
TextB ==
    << "b" >>
TextAA ==
    << "a", " ", "a" >>
TextAAB ==
    << "a", " ", "a", " ", "b" >>
TextGap ==
    << "a", " ", " ", "b" >>
TextSixA ==
    << "a", " ", "a", " ", "a", " ", "a", " ", "a", " ", "a" >>
HelloWorld ==
    << "h", "e", "l", "l", "o", " ", "w", "o", "r", "l", "d" >>
WorldHowAreYou ==
    << "w", "o", "r", "l", "d", " ", "h", "o", "w", " ", "a", "r", "e",
       " ", "y", "o", "u" >>
AreYouDoingFine ==
    << "a", "r", "e", " ", "y", "o", "u", " ", "d", "o", "i", "n", "g",
       " ", "f", "i", "n", "e" >>
TestingOneTwo ==
    << "t", "e", "s", "t", "i", "n", "g", " ", "o", "n", "e", " ", "t",
       "w", "o" >>

Texts ==
    { TextAB, TextBc, TextCA, TextB, TextAA, TextAAB, TextGap, TextSixA,
      HelloWorld, WorldHowAreYou, AreYouDoingFine, TestingOneTwo }

InitMerge ==
    /\ InitFields
    /\ lim = [ starts |-> 0, ready |-> 0, stops |-> 0 ]

\* streamingManager.addChunkText(chunkId, text); out holds the text returned
AddChunkText(text) ==
    /\ merged < MaxMerges
    /\ LET a == addChunkText(sessionText, previousChunkText, text)
       IN  /\ sessionText' = a.sessionText
           /\ previousChunkText' = a.previousChunkText
           /\ merged' = merged + 1
           /\ out' = << [ type |-> "addChunkText", text |-> text,
                          deduplicatedText |-> a.deduplicatedText ] >>
    /\ UNCHANGED << state, mode, ffmpegProcess, streamingDir, chunkCounter,
                    streamingConfig, cpProcess, outputDir, isWatching, procs,
                    starts, stops, units, owed, listeners, posted, lim >>
    /\ UNCHANGED pmVars

\* streamingManager.reset()
ResetManager ==
    /\ sessionText' = EmptyStr /\ previousChunkText' = EmptyStr
    /\ merged' = 0
    /\ out' = << [ type |-> "reset" ] >>
    /\ UNCHANGED << state, mode, ffmpegProcess, streamingDir, chunkCounter,
                    streamingConfig, cpProcess, outputDir, isWatching, procs,
                    starts, stops, units, owed, listeners, posted, lim >>
    /\ UNCHANGED pmVars

NextMerge ==
    \/ \E text \in Texts : AddChunkText(text)
    \/ ResetManager

SpecMerge == InitMerge /\ [][NextMerge]_vars

(***************************************************************************)
(* The service driven by the handlers of the webview's messages            *)
(* (src/src/core/kilocode/task/partial-message-manager.ts)                 *)
(***************************************************************************)
\* handleStartStreamingSpeech up to its wait for startStreamingRecording:
\* the listeners are attached, then the service is called, with segments of
\* 3 s that overlap by 1 s; a start refused at once leaves the call posting
\* the error
HandleStartStreamingSpeech ==
    /\ Triples(listeners) + Cardinality({ c \in listeners.awaiting : ~c.own }) < MaxHandlers
    /\ \/ /\ AlreadyRecording(W)
          /\ Commit(startStreamingRecording(
                        [W EXCEPT !.listeners.posting = @ + 1], DefaultConfig, 0))
       \/ /\ ~AlreadyRecording(W)
          /\ FreeIds(W) # {}
          /\ LET id == CHOOSE p \in FreeIds(W) : \A q \in FreeIds(W) : p <= q
             IN  Commit(startStreamingRecording(
                            [W EXCEPT !.listeners.awaiting = @ \cup {[ id |-> id, own |-> TRUE ]}],
                            DefaultConfig, id))

\* ... after speechStreamingError is posted for a start that failed: the
\* call detaches its listeners
HandlerCleanup ==
    /\ listeners.posting > 0
    /\ Commit([W EXCEPT !.listeners.posting = @ - 1])

\* handleStopStreamingSpeech up to its wait for stopStreamingRecording;
\* when that returns the call posts speechStreamingStopped or
\* speechStreamingError
HandleStopStreamingSpeech ==
    /\ NotStreaming(W) \/ Len(stops) < lim.stops
    /\ Commit(stopStreamingRecording([W EXCEPT !.listeners.stopping = @ \cup {0}], FALSE))

\* handleCancelSpeechRecognition calls cancelRecording
NextHandlers ==
    \/ HandleStartStreamingSpeech
    \/ HandlerCleanup
    \/ HandleStopStreamingSpeech
    \/ \E s \in starts, available \in BOOLEAN : StartCheckDone(s, available)
    \/ \E s \in starts, outcome \in {"throw", "noconfig", "spawned", "spawnfails"} :
           StartMkdirDone(s, outcome)
    \/ \E s \in starts : StartTimer(s)
    \/ \E id \in StopIds : StopTimeout(id)
    \/ CallCancel
    \/ CallDispose
    \/ \E p \in ProcIds : ProcStderr(p)
    \/ \E p \in ProcIds : ProcExit(p)
    \/ \E p \in ProcIds : ProcError(p)
    \/ \E i \in 1..Len(units) : TranscribeOk(i)
    \/ \E i \in 1..Len(units) : TranscribeFail(i)

InitHandlers ==
    /\ InitFields
    /\ lim = [ starts |-> MaxStarts, ready |-> SmallReady, stops |-> SmallStops ]

SpecHandlers == InitHandlers /\ [][NextHandlers]_vars

(***************************************************************************)
(* PartialMessageManager and handlePartialMessageCompletion                *)
(* (src/src/core/kilocode/task/partial-message-manager.ts).  The operators *)
(* take the Map partialStates as ps; completionPromises is never written   *)
(* to and is left out.                                                     *)
(***************************************************************************)
registerPartialMessage(ps, messageKey, ts) ==
    [ps EXCEPT ![messageKey] = [ has |-> TRUE, messageTs |-> ts, isCompleting |-> FALSE,
                                 wasPartialCompletion |-> FALSE, originalTs |-> 0 ]]

startPartialCompletion(ps, messageKey, originalTs) ==
    LET st == IF ps[messageKey].has THEN ps[messageKey]
              ELSE [ has |-> TRUE, messageTs |-> originalTs, isCompleting |-> TRUE,
                     wasPartialCompletion |-> TRUE, originalTs |-> originalTs ]
    IN  [ps EXCEPT ![messageKey] = [st EXCEPT !.isCompleting = TRUE,
                                              !.wasPartialCompletion = TRUE,
                                              !.originalTs = originalTs]]

\* a variant that drops the mark when the completion is over
completePartialMessageUnmarks(ps, messageKey) ==
    IF ps[messageKey].has
    THEN [ps EXCEPT ![messageKey].isCompleting = FALSE,
                    ![messageKey].wasPartialCompletion = FALSE]
    ELSE ps

completePartialMessage(ps, messageKey) ==
    IF ps[messageKey].has THEN [ps EXCEPT ![messageKey].isCompleting = FALSE] ELSE ps

\* a variant that gives every key the dual predicate
getWaitConditionDual(ps, messageKey, capturedAskTs) ==
    [ responseOnly |-> FALSE, capturedAskTs |-> capturedAskTs ]

\* the predicate returned, as the closure it is: which of the two bodies,
\* and the timestamp it has captured
getWaitCondition(ps, messageKey, capturedAskTs) ==
    IF ps[messageKey].has /\ ps[messageKey].wasPartialCompletion
    THEN [ responseOnly |-> TRUE, capturedAskTs |-> capturedAskTs ]
    ELSE [ responseOnly |-> FALSE, capturedAskTs |-> capturedAskTs ]

\* a call of the predicate c, the getters giving response and lastTs
condition(c, response, lastTs) ==
    IF c.responseOnly THEN response # "undefined"
    ELSE response # "undefined" \/ lastTs # c.capturedAskTs

cleanupState(ps, messageKey) == [ps EXCEPT ![messageKey] = NoState]

\* a variant that skips whenever the timestamps are equal
shouldSkipWaitAnyKey(ps, messageKey, response, lastTs, capturedAskTs) ==
    [ skip |-> lastTs = capturedAskTs /\ response # "undefined", partialStates |-> ps ]

\* the value returned, and the Map as the call leaves it
shouldSkipWait(ps, messageKey, response, lastTs, capturedAskTs) ==
    [ skip |-> IF /\ ps[messageKey].has /\ ps[messageKey].wasPartialCompletion
                  /\ lastTs = capturedAskTs
               THEN response # "undefined"
               ELSE FALSE,
      partialStates |-> ps ]

\* everything but the manager, the task and what the step returns
speechVars == << state, mode, ffmpegProcess, streamingDir, chunkCounter, streamingConfig,
                 sessionText, previousChunkText, cpProcess, outputDir, isWatching,
                 procs, starts, stops, units, owed, merged, listeners, posted, lim >>

RegisterPartialMessage(messageKey, ts) ==
    /\ partialStates' = registerPartialMessage(partialStates, messageKey, ts)
    /\ lifecycle' = [lifecycle EXCEPT ![messageKey] = "registerPartialMessage"]
    /\ out' = << >>
    /\ UNCHANGED << askResponse, lastMessageTs, conditions, speechVars >>

StartPartialCompletion(messageKey, originalTs) ==
    /\ partialStates' = startPartialCompletion(partialStates, messageKey, originalTs)
    /\ lifecycle' = [lifecycle EXCEPT ![messageKey] = "startPartialCompletion"]
    /\ out' = << >>
    /\ UNCHANGED << askResponse, lastMessageTs, conditions, speechVars >>

CompletePartialMessage(messageKey) ==
    /\ partialStates' = completePartialMessage(partialStates, messageKey)
    /\ out' = << [ type |-> "return", op |-> "completePartialMessage", key |-> messageKey ] >>
    /\ UNCHANGED << askResponse, lastMessageTs, conditions, lifecycle, speechVars >>

CleanupState(messageKey) ==
    /\ partialStates' = cleanupState(partialStates, messageKey)
    /\ lifecycle' = [lifecycle EXCEPT ![messageKey] = "cleanupState"]
    /\ out' = << >>
    /\ UNCHANGED << askResponse, lastMessageTs, conditions, speechVars >>

\* a caller gets a predicate and holds it; last: what was last called for
\* the key.  (Of two predicates that are the same in all, one is held.)
GetWaitCondition(messageKey, capturedAskTs) ==
    /\ Cardinality(conditions) < MaxConditions
    /\ LET c == getWaitCondition(partialStates, messageKey, capturedAskTs)
           held == [ key |-> messageKey, responseOnly |-> c.responseOnly,
                     capturedAskTs |-> c.capturedAskTs, waiting |-> FALSE,
                     last |-> lifecycle[messageKey] ]
       IN  held \notin conditions /\ conditions' = conditions \cup {held}
    /\ out' = << >>
    /\ UNCHANGED << partialStates, askResponse, lastMessageTs, lifecycle, speechVars >>

\* ... and lets it go
DropCondition(c) ==
    /\ c \in conditions /\ ~c.waiting
    /\ conditions' = conditions \ {c}
    /\ out' = << >>
    /\ UNCHANGED << partialStates, askResponse, lastMessageTs, lifecycle, speechVars >>

ShouldSkipWait(messageKey, capturedAskTs) ==
    LET r == shouldSkipWait(partialStates, messageKey, askResponse, lastMessageTs,
                            capturedAskTs)
    IN  /\ partialStates' = r.partialStates
        /\ out' = << [ type |-> "return", op |-> "shouldSkipWait", key |-> messageKey,
                       capturedAskTs |-> capturedAskTs, res |-> r.skip ] >>
        /\ UNCHANGED << askResponse, lastMessageTs, conditions, lifecycle, speechVars >>

\* handlePartialMessageCompletion up to its return or to its wait in
\* pWaitFor, which calls the predicate once at once and then every interval
HandlePartialMessageCompletion(messageKey, askTs) ==
    LET r == shouldSkipWait(partialStates, messageKey, askResponse, lastMessageTs, askTs)
        c == getWaitCondition(r.partialStates, messageKey, askTs)
        ret(path) == << [ type |-> "return", op |-> "handlePartialMessageCompletion",
                          key |-> messageKey, path |-> path ] >>
        held == [ key |-> messageKey, responseOnly |-> c.responseOnly,
                  capturedAskTs |-> c.capturedAskTs, waiting |-> TRUE,
                  last |-> lifecycle[messageKey] ]
    IN  IF r.skip
        THEN /\ partialStates' = r.partialStates
             /\ out' = ret("skip")
             /\ UNCHANGED << askResponse, lastMessageTs, conditions, lifecycle, speechVars >>
        ELSE IF condition(c, askResponse, lastMessageTs)
        THEN /\ partialStates' = cleanupState(r.partialStates, messageKey)
             /\ lifecycle' = [lifecycle EXCEPT ![messageKey] = "cleanupState"]
             /\ out' = ret("wait")
             /\ UNCHANGED << askResponse, lastMessageTs, conditions, speechVars >>
        ELSE /\ Cardinality(conditions) < MaxConditions
             /\ held \notin conditions
             /\ partialStates' = r.partialStates
             /\ conditions' = conditions \cup {held}
             /\ out' = << >>
             /\ UNCHANGED << askResponse, lastMessageTs, lifecycle, speechVars >>

\* the timer of pWaitFor finds the predicate true: waitForResponse cleans
\* the state up and handlePartialMessageCompletion returns
WaitOver(c) ==
    /\ c \in conditions /\ c.waiting
    /\ condition(c, askResponse, lastMessageTs)
    /\ partialStates' = cleanupState(partialStates, c.key)
    /\ lifecycle' = [lifecycle EXCEPT ![c.key] = "cleanupState"]
    /\ conditions' = conditions \ {c}
    /\ out' = << [ type |-> "return", op |-> "handlePartialMessageCompletion",
                   key |-> c.key, path |-> "wait" ] >>
    /\ UNCHANGED << askResponse, lastMessageTs, speechVars >>

\* the user answers the ask
SetAskResponse ==
    /\ askResponse = "undefined"
    /\ askResponse' = "yesButtonClicked"
    /\ out' = << >>
    /\ UNCHANGED << partialStates, lastMessageTs, conditions, lifecycle, speechVars >>

\* the task asks again, when no ask is waiting
ClearAskResponse ==
    /\ askResponse # "undefined"
    /\ \A c \in conditions : ~c.waiting
    /\ askResponse' = "undefined"
    /\ out' = << >>
    /\ UNCHANGED << partialStates, lastMessageTs, conditions, lifecycle, speechVars >>

\* the task adds a message
AddMessage(ts) ==
    /\ ts # lastMessageTs
    /\ lastMessageTs' = ts
    /\ out' = << >>
    /\ UNCHANGED << partialStates, askResponse, conditions, lifecycle, speechVars >>

NextPartial ==
    \/ \E k \in MessageKeys, ts \in Timestamps : RegisterPartialMessage(k, ts)
    \/ \E k \in MessageKeys, ts \in Timestamps : StartPartialCompletion(k, ts)
    \/ \E k \in MessageKeys : CompletePartialMessage(k)
    \/ \E k \in MessageKeys : CleanupState(k)
    \/ \E k \in MessageKeys, ts \in Timestamps : GetWaitCondition(k, ts)
    \/ \E c \in conditions : DropCondition(c)
    \/ \E k \in MessageKeys, ts \in Timestamps : ShouldSkipWait(k, ts)
    \/ \E k \in MessageKeys, ts \in Timestamps : HandlePartialMessageCompletion(k, ts)
    \/ \E c \in conditions : WaitOver(c)
    \/ SetAskResponse
    \/ ClearAskResponse
    \/ \E ts \in Timestamps : AddMessage(ts)

InitPartial ==
    /\ InitFields
    /\ lim = [ starts |-> 0, ready |-> 0, stops |-> 0 ]

SpecPartial == InitPartial /\ [][NextPartial]_vars

\* pWaitFor's timer fires every interval while the call waits
FairPartial == SpecPartial /\ \A c \in [ key : MessageKeys, responseOnly : BOOLEAN,
                                         capturedAskTs : Timestamps, waiting : {TRUE},
                                         last : {"never", "registerPartialMessage",
                                                 "startPartialCompletion", "cleanupState"} ] :
                                 WF_vars(WaitOver(c))

\* a timer that is not cleared fires: the 2000 ms timer of every suspended stop
FairSpec == Spec /\ \A id \in StopIds : WF_vars(StopTimeout(id))

(***************************************************************************)
(* What a step has emitted and returned                                    *)
(***************************************************************************)
Returned(o, op, res) ==
    \E i \in 1..Len(o) : o[i].type = "return" /\ o[i].op = op /\ o[i].res = res

Pending(id) == \E i \in 1..Len(stops) : stops[i].id = id

(***************************************************************************)
(* C1: segment-processing units run one at a time: at most one call of     *)
(* handleChunkReady is in progress in any reachable state.                 *)
(***************************************************************************)
C1_OneUnitAtATime == Len(units) <= 1

(***************************************************************************)
(* C2: of two segments of a session, the one whose ready signal came first *)
(* is merged and reported first: no progress event is emitted for a        *)
(* segment after the event of a segment that arrived later.                *)
(***************************************************************************)
C2_MergedInArrivalOrder ==
    \A i \in Emitted(out, "progressiveUpdate") : ~out[i].overtaken

(***************************************************************************)
(* C3: stop drains: a segment that was ready before stop was called is not *)
(* merged after that stop has returned (its text would be missing from the *)
(* finalText returned).                                                    *)
(***************************************************************************)
C3_MergedBeforeStopReturns ==
    \A i \in Emitted(out, "progressiveUpdate") : out[i].fate # "stopped"

(***************************************************************************)
(* C4: after cancel has returned, no segment of the cancelled session is   *)
(* passed to the assembler or reported by a progress event.                *)
(***************************************************************************)
C4_NothingAfterCancel ==
    \A i \in Emitted(out, "progressiveUpdate") : out[i].fate # "cancelled"

(***************************************************************************)
(* C5: cancel never emits streamingComplete; every accepted stop emits     *)
(* exactly one (the events owed are those of the stops still suspended),   *)
(* and, its timer firing, every suspended stop ends.                       *)
(***************************************************************************)
C5_StopEmitsOnce ==
    /\ [](/\ (Returned(out, "cancel", "ok") \/ Returned(out, "cancel", "NotRecording"))
              => Emitted(out, "streamingComplete") = {}
          /\ owed = Len(stops))
    /\ \A id \in StopIds : Pending(id) ~> ~Pending(id)

C5_Witness ==
    /\ Returned(out, "stop", "ok")
    /\ Cardinality(Emitted(out, "streamingComplete")) = 1
    /\ \E p \in ProcIds : procs[p].st = "running" /\ procs[p].sig = "SIGTERM"

(***************************************************************************)
(* C6: start is rejected as already active in every state but idle.        *)
(***************************************************************************)
C6_StartRejectedUnlessIdle ==
    [][\A config \in Configs :
          (state # "idle" /\ CallStart(config))
              => Returned(out', "start", "AlreadyRecording")]_vars

(***************************************************************************)
(* C7: start while recording returns the already-recording error and       *)
(* changes nothing: no field of the service, the detector or the assembler,*)
(* no process, no suspended call.                                          *)
(***************************************************************************)
C7_StartWhileRecordingIsNoOp ==
    [][\A config \in Configs :
          (state = "recording" /\ CallStart(config))
              => /\ Returned(out', "start", "AlreadyRecording")
                 /\ UNCHANGED << svcVars, procs, starts, stops, units, owed >>]_vars

C7_Witness ==
    /\ Returned(out, "start", "AlreadyRecording")
    /\ state = "recording" /\ ffmpegProcess # 0
    /\ procs[ffmpegProcess].st = "running" /\ isWatching

\* the step spawns nothing, suspends no call that would, and watches nothing new
NoLaunch == UNCHANGED << procs, starts, ffmpegProcess, cpProcess, outputDir, isWatching >>

(***************************************************************************)
(* C8, as stated: start with overlap >= segment duration fails with the    *)
(* configuration error, launches no process and attaches no detector.      *)
(***************************************************************************)
C8_AlwaysConfigurationError ==
    [][\A config \in Configs :
          (config.overlapDurationSeconds >= config.chunkDurationSeconds /\ CallStart(config))
              => Returned(out', "start", "OverlapError") /\ NoLaunch]_vars

(***************************************************************************)
(* C8, amended: start with overlap >= segment duration always fails, with  *)
(* the configuration error unless the state is recording, where it fails   *)
(* with the already-recording error; in both cases no process is launched  *)
(* and no detector attached.                                               *)
(***************************************************************************)
C8_InvalidOverlapFails ==
    [][\A config \in Configs :
          (config.overlapDurationSeconds >= config.chunkDurationSeconds /\ CallStart(config))
              => /\ Returned(out', "start",
                             IF state = "recording" THEN "AlreadyRecording"
                                                    ELSE "OverlapError")
                 /\ Len(out') = 1
                 /\ NoLaunch]_vars

C8_Witness == Returned(out, "start", "OverlapError") /\ starts = {} /\ ~isWatching

(***************************************************************************)
(* C9: whenever the controller is idle, no capture process it spawned is   *)
(* running without having been sent a signal.                              *)
(***************************************************************************)
C9_NoProcessLeftWhenIdle ==
    state = "idle" => \A p \in ProcIds : ~(procs[p].st = "running" /\ procs[p].sig = "none")

(***************************************************************************)
(* C10: when the grace timer of stop fires, a process that is still running*)
(* is sent SIGKILL: the process that stop set out to terminate is not left *)
(* running with SIGTERM only.                                              *)
(***************************************************************************)
C10_EscalatesToSigkill ==
    [][\A i \in 1..Len(stops) :
          StopTimeout(stops[i].id)
              => LET p == stops[i].proc
                 IN  procs'[p].st # "running" \/ procs'[p].sig = "SIGKILL"]_vars


(***************************************************************************)
(* C11: when the capture process exits, without having been sent a signal, *)
(* while the state is recording, the state becomes idle, streamingError is *)
(* emitted and streamingComplete is not.                                   *)
(***************************************************************************)
C11_UnexpectedExitEndsSession ==
    [][\A p \in ProcIds :
          (state = "recording" /\ ffmpegProcess = p /\ procs[p].sig = "none" /\ ProcExit(p))
              => /\ state' = "idle"
                 /\ Emitted(out', "streamingError") # {}
                 /\ Emitted(out', "streamingComplete") = {}]_vars

(***************************************************************************)
(* C12: a failed transcription emits streamingError and nothing else, and  *)
(* changes nothing but the call that failed: state, detector, transcript,  *)
(* processes and the other calls in flight are as before; and every call   *)
(* whose transcription succeeds is merged and reported by a progress event *)
(* with its own number, whatever failed before it.                         *)
(***************************************************************************)
C12_FailureIsIsolated ==
    [][\A i \in 1..Len(units) :
          /\ TranscribeFail(i)
                => /\ out' = << [ type |-> "streamingError" ] >>
                   /\ units' = Without(units, i)
                   /\ UNCHANGED << svcVars, starts, stops, owed, merged >>
                   /\ \A p \in ProcIds : procs[p].st = "running" => procs'[p] = procs[p]
          /\ TranscribeOk(i)
                => /\ Emitted(out', "progressiveUpdate") = {1}
                   /\ out'[1].chunkId = units[i].chunkId]_vars

\* the second segment of a session is reported, with its text alone in the
\* transcript and nothing in flight: the first one has failed
C12_Witness ==
    /\ state = "recording" /\ isWatching /\ units = << >>
    /\ \E i \in Emitted(out, "progressiveUpdate") :
           out[i].chunkId = 1 /\ out[i].text = SpokenText(1)

(***************************************************************************)
(* C13: the count that stop reports with the transcript is the number of   *)
(* segments transcribed and merged in the session.                         *)
(***************************************************************************)
C13_CountIsMerged ==
    \A i \in Emitted(out, "streamingComplete") : out[i].totalChunks = out[i].merged

(***************************************************************************)
(* C15: the state starts idle and changes only along idle -> recording,    *)
(* recording -> transcribing, transcribing -> idle and recording -> idle.  *)
(***************************************************************************)
Edges ==
    { << "idle", "recording" >>, << "recording", "transcribing" >>,
      << "transcribing", "idle" >>, << "recording", "idle" >> }

C15_StateEdges ==
    /\ state = "idle"
    /\ [][state' # state => << state, state' >> \in Edges]_vars


(***************************************************************************)
(* C14: at most one capture process spawned by the service is running at   *)
(* any time, and when the state is recording the process whose handle the  *)
(* service holds is the process the detector watches.                      *)
(***************************************************************************)
C14_OneLiveSession ==
    /\ Cardinality({ p \in ProcIds : procs[p].st = "running" }) <= 1
    /\ (state = "recording" /\ ffmpegProcess # 0 /\ cpProcess # 0)
           => cpProcess = ffmpegProcess


(***************************************************************************)
(* C16: stop called when the state is not recording, or the mode is not    *)
(* streaming, returns the not-recording error, emits nothing and changes   *)
(* nothing.                                                                *)
(***************************************************************************)
C16_StopWhenNotStreaming ==
    [][((state # "recording" \/ mode # "streaming") /\ CallStop)
          => /\ out' = << [ type |-> "return", op |-> "stop", res |-> "NotStreaming" ] >>
             /\ UNCHANGED << svcVars, procs, starts, stops, units, owed, merged >>]_vars

\* stop has just been refused while a batch recording is running
C16_Witness ==
    /\ Returned(out, "stop", "NotStreaming")
    /\ state = "recording" /\ mode = "batch" /\ ffmpegProcess # 0
    /\ procs[ffmpegProcess].st = "running"


(***************************************************************************)
(* C17: a start with 0 < overlap < segment duration, called in state idle, *)
(* goes on to the availability check; with the capture program available   *)
(* it goes on to spawn the process and attach the detector; and when the   *)
(* 500 ms timer fires with the process it spawned still running, untouched *)
(* and held by the service in state recording, it returns success and      *)
(* leaves the state recording with the detector attached to that process.  *)
(***************************************************************************)
Attached(p) == isWatching' /\ cpProcess' = p /\ procs'[p].data /\ procs'[p].st = "running"

C17_ValidStartSucceeds ==
    [][/\ \A config \in Configs :
            (/\ 0 < config.overlapDurationSeconds
             /\ config.overlapDurationSeconds < config.chunkDurationSeconds
             /\ state = "idle"
             /\ CallStart(config))
                => /\ out' = << >> /\ state' = "recording"
                   /\ streamingConfig' = config
                   /\ \E s \in starts' \ starts : s.pc = "check"
       /\ \A s \in starts :
            /\ StartCheckDone(s, TRUE)
                  => out' = << >> /\ [s EXCEPT !.pc = "mkdir"] \in starts'
            /\ StartMkdirDone(s, "spawned")
                  => /\ out' = << >> /\ [s EXCEPT !.pc = "window"] \in starts'
                     /\ ffmpegProcess' = s.id /\ Attached(s.id)
            /\ (/\ StartTimer(s)
                /\ state = "recording" /\ ffmpegProcess = s.id
                /\ procs[s.id].st = "running" /\ procs[s.id].sig = "none")
                  => /\ out' = << [ type |-> "return", op |-> "start", res |-> "ok" ] >>
                     /\ state' = "recording" /\ mode' = "streaming"
                     /\ ffmpegProcess' = s.id /\ Attached(s.id)]_vars

C17_Witness ==
    /\ Returned(out, "start", "ok")
    /\ state = "recording" /\ mode = "streaming" /\ isWatching
    /\ ffmpegProcess # 0 /\ cpProcess = ffmpegProcess
    /\ procs[ffmpegProcess].st = "running" /\ procs[ffmpegProcess].data


(***************************************************************************)
(* Reading stderr line by line: the reference                              *)
(***************************************************************************)
\* the segment files that a completion pattern names in a text: Closing
\* 'name' or segment:'name' ... ended, with a name of the segment scheme
CompletionFiles(text) ==
    { text[i + 1].n : i \in
        { i \in 1..(Len(text) - 2) :
            /\ text[i + 1].t \in {"chunkName", "chunkPath"}
            /\ text[i + 2].t = "quote"
            /\ \/ text[i].t = "closing"
               \/ text[i].t = "segment" /\ EndedAfter(text, i + 2) } }

\* one signal for every complete line that matches, in order
RECURSIVE lineSignals(_)
lineSignals(text) ==
    LET nls == { i \in 1..Len(text) : text[i].t = "nl" }
        e == CHOOSE x \in nls : \A y \in nls : x <= y
        files == CompletionFiles(SubSeq(text, 1, e - 1))
    IN  IF nls = {} THEN << >>
        ELSE (IF files = {} THEN << >> ELSE << CHOOSE n \in files : TRUE >>)
                 \o lineSignals(SubSeq(text, e + 1, Len(text)))

\* the chunkReady signals raised, as the calls of handleChunkReady they started
SignalsOf(us) == [i \in 1..Len(us) |-> us[i].path.file]

(***************************************************************************)
(* C18: however the text is cut into data events, once the detector has    *)
(* been delivered all of it the signals raised are one per complete        *)
(* matching line, in order.                                                *)
(***************************************************************************)
C18_SignalPerLine ==
    (state = "recording" /\ isWatching /\ cpProcess # 0
        /\ procs[cpProcess].pending = << >>)
        => SignalsOf(units) = lineSignals(procs[cpProcess].got)

(***************************************************************************)
(* C19: a data event whose text holds no completion pattern with a segment *)
(* file name raises no signal and no error; a signal raised names a file   *)
(* that a completion pattern of the text names.                            *)
(***************************************************************************)
C19_NoFalsePositive ==
    [][\A p \in ProcIds : \A k \in 1..Len(procs[p].pending) :
          StderrData(p, k)
              => LET text == SubSeq(procs[p].pending, 1, k)
                 IN  /\ out' = << >>
                     /\ CompletionFiles(text) = {} => units' = units
                     /\ units' # units
                           => /\ Len(units') = Len(units) + 1
                              /\ units'[Len(units')].path.file \in CompletionFiles(text)]_vars

\* all the text was delivered, a Closing line of a file of another scheme
\* included, and no signal was raised
C19_Witness ==
    /\ isWatching /\ cpProcess # 0 /\ units = << >>
    /\ procs[cpProcess].pending = << >>
    /\ \E i \in 1..Len(procs[cpProcess].got) : procs[cpProcess].got[i].t = "otherName"

(***************************************************************************)
(* C20: when stop stops the detector, every completion line delivered so   *)
(* far, the unterminated end of the text included, has raised its signal.  *)
(***************************************************************************)
C20_FlushedAtStop ==
    [][(state = "recording" /\ isWatching /\ cpProcess # 0 /\ CallStop)
          => SignalsOf(units') = lineSignals(procs[cpProcess].got \o << Tok("nl", 0) >>)]_vars


(***************************************************************************)
(* C21: once stop has stopped the detector, nothing the process writes     *)
(* raises a ready signal: a data event of a process while the detector is  *)
(* not watching starts no call of handleChunkReady, takes no segment       *)
(* number and emits nothing.                                               *)
(***************************************************************************)
C21_NoSignalAfterStop ==
    [][\A p \in ProcIds : \A k \in 1..Len(procs[p].pending) :
          (~isWatching /\ StderrData(p, k))
              => /\ units' = units /\ chunkCounter' = chunkCounter
                 /\ out' = << >>
                 /\ UNCHANGED << state, sessionText, previousChunkText, stops >>]_vars

\* stop was called before the process wrote anything; the process, still
\* running, has then written a completion line, and no call was started
C21_Witness ==
    /\ state = "transcribing" /\ ~isWatching /\ Len(stops) = 1
    /\ procs[1].st = "running" /\ procs[1].sig = "SIGTERM"
    /\ procs[1].got # << >> /\ procs[1].lost = Len(procs[1].got)
    /\ CompletionFiles(procs[1].got) # {}
    /\ units = << >> /\ chunkCounter = 0


(***************************************************************************)
(* C22: the sequence number that a progress event carries (the one passed  *)
(* to the assembler) is the number in the name of the segment file that    *)
(* was reported ready, also when the process skips a segment number.       *)
(***************************************************************************)
C22_KeyedByFileNumber ==
    \A i \in Emitted(out, "progressiveUpdate") :
        out[i].sequenceNumber = out[i].file /\ out[i].chunkId = out[i].file


(***************************************************************************)
(* C23: the detector emits complete on every exit of the process it was    *)
(* attached to (every process here is watched from its spawn on), the exit *)
(* that follows the SIGTERM of stop included, and emits chunkError on      *)
(* every error of the process.                                             *)
(***************************************************************************)
C23_CompleteOnEveryExit ==
    [][\A p \in ProcIds :
          /\ ProcExit(p) => Emitted(out', "complete") # {}
          /\ ProcError(p) => Emitted(out', "chunkError") # {}]_vars


(***************************************************************************)
(* The merge of two texts word by word: the reference                      *)
(***************************************************************************)
\* the words of a text: its maximal runs of characters other than white space
RECURSIVE RefWordsFrom(_, _)
RefWordsFrom(s, cur) ==
    LET done == IF cur = << >> THEN << >> ELSE << cur >>
    IN  IF s = << >> THEN done
        ELSE IF Head(s) = Space THEN done \o RefWordsFrom(Tail(s), << >>)
        ELSE RefWordsFrom(Tail(s), Append(cur, Head(s)))

RefWords(s) == RefWordsFrom(s, << >>)

\* two words equal but for their case
SameWord(a, b) ==
    Len(a) = Len(b) /\ \A i \in 1..Len(a) : LowerChar(a[i]) = LowerChar(b[i])

\* the last k words of prev are the first k words of curr, but for their case
Overlaps(prev, curr, k) ==
    /\ k <= Len(prev) /\ k <= Len(curr)
    /\ \A j \in 1..k : SameWord(prev[Len(prev) - k + j], curr[j])

\* the largest k in 1..min(5, |prev|, |curr|) that overlaps, 0 if none
RefK(prev, curr) ==
    LET ks == { k \in 1..MaxOverlapWords : Overlaps(prev, curr, k) }
    IN  IF ks = {} THEN 0 ELSE CHOOSE k \in ks : \A j \in ks : j <= k

\* curr's words after the first k
RefRest(prevText, currText) ==
    LET prev == RefWords(prevText)
        curr == RefWords(currText)
    IN  SubSeq(curr, RefK(prev, curr) + 1, Len(curr))

\* a text appended to a transcript, with one space between iff the
\* transcript is not empty
Appended(transcript, text) ==
    transcript \o (IF transcript # EmptyStr THEN << Space >> ELSE << >>) \o text

(***************************************************************************)
(* C24, as stated: addChunkText returns curr's words after the first k, k  *)
(* the largest overlap of at most 5 words; the text returned is appended   *)
(* to the transcript with one separating space iff the transcript is not   *)
(* empty; the previous-segment text becomes the full raw text.             *)
(***************************************************************************)
C24_AlwaysAppended ==
    [][\A text \in Texts :
          AddChunkText(text)
              => /\ Len(out') = 1
                 /\ RefWords(out'[1].deduplicatedText) = RefRest(previousChunkText, text)
                 /\ sessionText' = Appended(sessionText, out'[1].deduplicatedText)
                 /\ previousChunkText' = text]_vars

(***************************************************************************)
(* C24, amended: the same, but a text returned that is empty (k covers all *)
(* of curr's words) leaves the transcript as it is, without a separating   *)
(* space.                                                                  *)
(***************************************************************************)
C24_MergeIsReference ==
    [][\A text \in Texts :
          AddChunkText(text)
              => /\ Len(out') = 1
                 /\ RefWords(out'[1].deduplicatedText) = RefRest(previousChunkText, text)
                 /\ sessionText' = IF out'[1].deduplicatedText = EmptyStr
                                   THEN sessionText
                                   ELSE Appended(sessionText, out'[1].deduplicatedText)
                 /\ previousChunkText' = text]_vars

\* two words of the text before were dropped where one word overlaps as
\* well, and the rest was appended after one space
C24_Witness ==
    /\ merged = 2 /\ previousChunkText = TextAAB
    /\ sessionText = << "a", " ", "a", " ", "b" >>
    /\ out = << [ type |-> "addChunkText", text |-> TextAAB,
                  deduplicatedText |-> << "b" >> ] >>


\* words written one after the other with one space between
RECURSIVE RefJoin(_)
RefJoin(ws) ==
    IF ws = << >> THEN << >>
    ELSE IF Len(ws) = 1 THEN Head(ws)
    ELSE Head(ws) \o << Space >> \o RefJoin(Tail(ws))

\* the step appends exactly text to the transcript (nothing, when text is
\* empty)
Appends(text) ==
    sessionText' = IF text = EmptyStr THEN sessionText ELSE Appended(sessionText, text)

(***************************************************************************)
(* C25, as stated: for every k of 1..5 such that the last k words of the   *)
(* segment before equal, but for their case, the first k words of the new  *)
(* segment, the merge appends the new segment's text without those k words.*)
(***************************************************************************)
C25_AnyOverlapRemoved ==
    [][\A text \in Texts :
          (previousChunkText # EmptyStr /\ AddChunkText(text))
              => LET prev == RefWords(previousChunkText)
                     curr == RefWords(text)
                 IN  \A k \in 1..MaxOverlapWords :
                        Overlaps(prev, curr, k)
                            => Appends(RefJoin(SubSeq(curr, k + 1, Len(curr))))]_vars

(***************************************************************************)
(* C25, amended: for the largest such k, the merge returns and appends the *)
(* new segment's text without its first k words.                           *)
(***************************************************************************)
C25_LargestOverlapRemoved ==
    [][\A text \in Texts :
          (previousChunkText # EmptyStr /\ AddChunkText(text))
              => LET prev == RefWords(previousChunkText)
                     curr == RefWords(text)
                     k == RefK(prev, curr)
                     rest == RefJoin(SubSeq(curr, k + 1, Len(curr)))
                 IN  k >= 1 => out'[1].deduplicatedText = rest /\ Appends(rest)]_vars

\* "B c" was merged after "a b": the word repeated in another case was
\* dropped
C25_Witness ==
    /\ merged = 2 /\ previousChunkText = TextBc
    /\ sessionText = << "a", " ", "b", " ", "c" >>
    /\ out = << [ type |-> "addChunkText", text |-> TextBc,
                  deduplicatedText |-> << "c" >> ] >>


IsPrefix(a, b) == Len(a) <= Len(b) /\ SubSeq(b, 1, Len(a)) = a

\* the step ends with the manager reset
ManagerReset == sessionText' = EmptyStr /\ previousChunkText' = EmptyStr /\ merged' = 0

(***************************************************************************)
(* C26: between two resets the transcript only grows: a merge reports, in  *)
(* its progress event, a text of which the transcript before is a prefix,  *)
(* and leaves that text as the transcript (or resets the manager, when the *)
(* merge ends the session); every other step leaves the transcript as it   *)
(* is or resets the manager.  So the text of a progress event is a prefix  *)
(* of the text of the next one before a reset.                             *)
(***************************************************************************)
C26_TranscriptGrows ==
    [][/\ \A i \in 1..Len(units) :
            TranscribeOk(i)
                => \E e \in Emitted(out', "progressiveUpdate") :
                      /\ IsPrefix(sessionText, out'[e].text)
                      /\ sessionText' = out'[e].text \/ ManagerReset
       /\ (\A i \in 1..Len(units) : ~TranscribeOk(i))
                => sessionText' = sessionText \/ ManagerReset]_vars

\* the second merge of a session has extended the transcript of the first
C26_Witness ==
    /\ state = "recording" /\ merged = 2
    /\ sessionText = << "a", " ", "b", " ", "c" >>
    /\ \E e \in Emitted(out, "progressiveUpdate") : out[e].text = sessionText


\* the transcripts of the scenario after its second and its third segment
HelloWorldHowAreYou ==
    << "h", "e", "l", "l", "o", " ", "w", "o", "r", "l", "d", " ", "h",
       "o", "w", " ", "a", "r", "e", " ", "y", "o", "u" >>
HelloWorldHowAreYouDoingFine ==
    << "h", "e", "l", "l", "o", " ", "w", "o", "r", "l", "d", " ", "h",
       "o", "w", " ", "a", "r", "e", " ", "y", "o", "u", " ", "d", "o",
       "i", "n", "g", " ", "f", "i", "n", "e" >>

(***************************************************************************)
(* C27: merged in order after a reset, "hello world", "world how are you", *)
(* "are you doing fine" give "hello world how are you doing fine"; the     *)
(* first segment after a reset is returned and appended whole; and a       *)
(* segment that starts with the last words (at most 5) of the one before   *)
(* adds its other words, and only them, to the words of the transcript.    *)
(***************************************************************************)
C27_DeduplicatedConcatenation ==
    [][\A text \in Texts :
          AddChunkText(text)
              => /\ merged = 0
                     => sessionText' = text /\ out'[1].deduplicatedText = text
                 /\ (/\ text = WorldHowAreYou
                     /\ previousChunkText = HelloWorld /\ sessionText = HelloWorld)
                     => sessionText' = HelloWorldHowAreYou
                 /\ (/\ text = AreYouDoingFine
                     /\ previousChunkText = WorldHowAreYou
                     /\ sessionText = HelloWorldHowAreYou)
                     => sessionText' = HelloWorldHowAreYouDoingFine
                 /\ LET prev == RefWords(previousChunkText)
                        curr == RefWords(text)
                        k == RefK(prev, curr)
                    IN  k >= 1 => RefWords(sessionText')
                                     = RefWords(sessionText) \o SubSeq(curr, k + 1, Len(curr))]_vars

\* the three segments of the scenario have been merged
C27_Witness ==
    /\ merged = 3 /\ previousChunkText = AreYouDoingFine
    /\ sessionText = HelloWorldHowAreYouDoingFine
    /\ out = << [ type |-> "addChunkText", text |-> AreYouDoingFine,
                  deduplicatedText |-> << "d", "o", "i", "n", "g", " ", "f", "i", "n", "e" >> ] >>


\* a step that ends the wait of the i-th suspended stop: its timer fires, or
\* the process it waits for exits
StopEnds(i) ==
    \/ StopTimeout(stops[i].id)
    \/ stops[i].exitL /\ ProcExit(stops[i].proc)

(***************************************************************************)
(* C28: a stop called after start has returned success, no segment having  *)
(* been ready, ends (at the exit of the process or when its timer fires) by*)
(* emitting streamingComplete with text "" and count 0 and returning       *)
(* success, with the state idle and the capture process not running.       *)
(***************************************************************************)
C28_StopBeforeAnySegment ==
    [][\A i \in 1..Len(stops) :
          (/\ ~stops[i].auto /\ Len(stops) = 1 /\ starts = {}
           /\ state = "transcribing" /\ ffmpegProcess = stops[i].proc
           /\ chunkCounter = 0 /\ merged = 0 /\ units = << >>
           /\ StopEnds(i))
              => /\ Returned(out', "stop", "ok")
                 /\ \E e \in Emitted(out', "streamingComplete") :
                        out'[e].finalText = EmptyStr /\ out'[e].totalChunks = 0
                 /\ state' = "idle"
                 /\ procs'[stops[i].proc].st # "running"]_vars


\* the step leaves the service, the detector, the assembler, the processes
\* and the suspended calls as cancelRecording would
SameAsCancel ==
    LET c == Collect(cancelRecording(W))
    IN  /\ state' = c.state /\ mode' = c.mode /\ ffmpegProcess' = c.ffmpegProcess
        /\ streamingDir' = c.streamingDir /\ chunkCounter' = c.chunkCounter
        /\ streamingConfig' = c.streamingConfig /\ sessionText' = c.sessionText
        /\ previousChunkText' = c.previousChunkText /\ cpProcess' = c.cpProcess
        /\ outputDir' = c.outputDir /\ isWatching' = c.isWatching /\ procs' = c.procs
        /\ starts' = c.starts /\ stops' = c.stops /\ owed' = c.owed
        /\ merged' = c.merged

Lasting(l) == l.attached + Cardinality({ c \in l.awaiting : c.own })

(***************************************************************************)
(* C30: the three listeners of a call of the streaming start handler are   *)
(* detached at every end of its session (complete, error, cancel, failed   *)
(* start): with the state idle and no call of the handler waiting for its  *)
(* start, no listener set is left attached; and at most one listener set   *)
(* is attached to stay at any time.                                        *)
(***************************************************************************)
C30_ListenersDetached ==
    /\ Lasting(listeners) <= 1
    /\ (state = "idle" /\ listeners.awaiting = {}) => listeners.attached = 0


\* the key of the held condition c was marked as a partial completion when
\* the condition was asked for
Marked(c) == c.last = "startPartialCompletion"

\* the user has answered
Answered == askResponse # "undefined"

(***************************************************************************)
(* C31: the predicate that getWaitCondition returns is, whenever it is     *)
(* called later, true iff askResponse() is defined when the key was marked *)
(* as a partial completion at the call (by startPartialCompletion, also    *)
(* after completePartialMessage), whatever the timestamps; and for any     *)
(* other key (never registered, only registered, cleaned up) true iff      *)
(* askResponse() is defined or lastMessageTs() differs from capturedAskTs. *)
(***************************************************************************)
C31_WaitCondition ==
    \A c \in conditions :
        condition(c, askResponse, lastMessageTs)
            = IF Marked(c) THEN Answered
              ELSE Answered \/ lastMessageTs # c.capturedAskTs

\* a caller holds the predicate of a key whose completion was started and
\* is over; the timestamp has changed, there is no answer, and the
\* predicate is false
C31_Witness ==
    \E c \in conditions :
        /\ Marked(c) /\ ~c.waiting
        /\ partialStates[c.key].has /\ ~partialStates[c.key].isCompleting
        /\ lifecycle[c.key] = "startPartialCompletion"
        /\ ~Answered /\ lastMessageTs # c.capturedAskTs
        /\ ~condition(c, askResponse, lastMessageTs)

\* the step is a return of shouldSkipWait
SkipWaitReturns == out' # << >> /\ out'[1].type = "return" /\ out'[1].op = "shouldSkipWait"

(***************************************************************************)
(* C32: shouldSkipWait returns true iff the key is marked as a partial     *)
(* completion, lastMessageTs() equals capturedAskTs and askResponse() is   *)
(* defined (so false for a regular message, even with equal timestamps     *)
(* and a response), and it leaves the manager's state as it was.           *)
(***************************************************************************)
C32_SkipWait ==
    [][SkipWaitReturns
          => /\ out'[1].res = ( /\ lifecycle[out'[1].key] = "startPartialCompletion"
                                /\ lastMessageTs = out'[1].capturedAskTs
                                /\ Answered )
             /\ partialStates' = partialStates]_vars

\* shouldSkipWait has returned true for a key whose state is still held
C32_Witness ==
    /\ out # << >> /\ out[1].type = "return" /\ out[1].op = "shouldSkipWait"
    /\ out[1].res
    /\ partialStates[out[1].key].wasPartialCompletion
    /\ lastMessageTs = out[1].capturedAskTs /\ Answered


\* the step is a call of handlePartialMessageCompletion for key k with
\* timestamp ts, which is the last message's, k being marked as a partial
\* completion
ReusedTsCall(k, ts) ==
    /\ lifecycle[k] = "startPartialCompletion" /\ lastMessageTs = ts
    /\ HandlePartialMessageCompletion(k, ts)

\* the step returns from handlePartialMessageCompletion for key k
CompletionReturns(k) ==
    /\ out' # << >> /\ out'[1].type = "return"
    /\ out'[1].op = "handlePartialMessageCompletion" /\ out'[1].key = k

\* the calls of handlePartialMessageCompletion that wait, made for a marked
\* key with the timestamp ts
MarkedWaits ==
    [ key : MessageKeys, responseOnly : BOOLEAN, capturedAskTs : Timestamps,
      waiting : {TRUE}, last : {"startPartialCompletion"} ]

(***************************************************************************)
(* C33: a call of handlePartialMessageCompletion for a key marked as a     *)
(* partial completion, with lastMessageTs equal to the timestamp passed,   *)
(* returns at once when askResponse is defined at the call, does not       *)
(* return while askResponse is undefined (whatever the timestamps do       *)
(* meanwhile), and returns eventually once askResponse is defined.         *)
(***************************************************************************)
C33_ReturnsOnResponseOnly ==
    /\ [][\A k \in MessageKeys, ts \in Timestamps :
             ReusedTsCall(k, ts)
                 => /\ Answered => CompletionReturns(k)
                    /\ ~Answered => /\ out' = << >>
                                    /\ \E c \in conditions' \ conditions :
                                          c \in MarkedWaits /\ c.key = k]_vars
    /\ [][\A c \in MarkedWaits :
             (c \in conditions /\ c \notin conditions') => (Answered /\ CompletionReturns(c.key))]_vars
    /\ \A k \in MessageKeys :
          (Answered /\ \E c \in conditions \cap MarkedWaits : c.key = k)
              ~> (\A c \in conditions \cap MarkedWaits : c.key # k)

\* a call for a marked key, made with the timestamp of the last message and
\* no answer, is waiting, and the user has now answered
C33_Witness ==
    \E c \in conditions :
        /\ c \in MarkedWaits /\ c.capturedAskTs = lastMessageTs
        /\ Answered

(***************************************************************************)
(* C39: when handlePartialMessageCompletion returns, by the skip or by the *)
(* wait, the manager holds no state for the message key (so that a later   *)
(* regular message with the same key gets the dual wait condition).        *)
(***************************************************************************)
C39_NoStateAfterReturn ==
    [][\A k \in MessageKeys : CompletionReturns(k) => ~partialStates'[k].has]_vars


\* the step emits a progress event for a segment of the session that is on
OwnProgress ==
    \E i \in Emitted(out', "progressiveUpdate") : out'[i].fate = "live"

(***************************************************************************)
(* C34: with a segment cap M > 0 at most M segment texts are merged and at *)
(* most M progress events emitted for a session, which stops itself when   *)
(* the M-th is; with M = 0 no merge stops the session.                     *)
(***************************************************************************)
C34_CapBoundsSession ==
    [][OwnProgress
          => /\ streamingConfig.maxChunks > 0
                   => /\ merged <= streamingConfig.maxChunks - 1
                      /\ merged = streamingConfig.maxChunks - 1 => state' # "recording"
             /\ streamingConfig.maxChunks = 0 => state' = state]_vars


\* a session is on whose process was spawned, so that its start has reset
\* the assembler
SessionOn == state = "recording" /\ ffmpegProcess # 0

(***************************************************************************)
(* C35: the start of a session resets the assembler, and no segment that   *)
(* became ready in a session since stopped, cancelled or disposed of is    *)
(* merged into, or reported by a progress event of, a later session.       *)
(***************************************************************************)
C35_OwnSegmentsOnly ==
    [][/\ \A s \in starts :
             (s.pc = "mkdir" /\ StartMkdirDone(s, "spawned"))
                 => sessionText' = EmptyStr /\ previousChunkText' = EmptyStr
       /\ \A i \in Emitted(out', "progressiveUpdate") :
             out'[i].fate # "live" => ~SessionOn]_vars


\* the results with which a start fails, already recording excepted
StartFailures == { "OverlapError", "FFmpegUnavailable", "UnsupportedPlatform",
                   "Exception", "ProcessError" }

(***************************************************************************)
(* C36: a start that returns a failure other than already recording       *)
(* leaves the controller Idle with no process handle, whatever the cause.  *)
(***************************************************************************)
C36_FailedStartLeavesIdle ==
    [][\A i \in 1..Len(out') :
          (out'[i].type = "return" /\ out'[i].op = "start" /\ out'[i].res \in StartFailures)
              => state' = "idle" /\ ffmpegProcess' = 0]_vars


\* the promise of the suspended start s can still be resolved: by the timer
\* of its startup window, or by the 'error' listener it has put on its
\* process, which has yet to emit 'error'
Resolvable(s) ==
    \/ s.pc # "hung"
    \/ procs[s.id].st = "failed" /\ procs[s.id].svcError

(***************************************************************************)
(* C37: every call of start returns a result in the end: no call is left   *)
(* with a promise that nothing can resolve any more, also when stop,       *)
(* cancel or dispose runs, or the process emits an error, during the       *)
(* startup window.                                                         *)
(***************************************************************************)
C37_StartReturns == \A s \in starts : Resolvable(s)


\* the places of text where a line of the kind given (a "closing" or a
\* "segment" token) names the segment file n
Naming(text, kind, n) ==
    { i \in 1..(Len(text) - 1) :
        /\ text[i].t = kind
        /\ text[i + 1].t \in {"chunkName", "chunkPath"} /\ text[i + 1].n = n }

\* the process has finalized the segment file n once: at most one line of
\* each of the two shapes names it
FinalizedOnce(text, n) ==
    /\ Cardinality(Naming(text, "closing", n)) <= 1
    /\ Cardinality(Naming(text, "segment", n)) <= 1

(***************************************************************************)
(* C38: a segment file that the process has finalized once gives rise to   *)
(* at most one ready signal, so that it is counted and transcribed once,   *)
(* also when the process reports it with both shapes of message (a         *)
(* 'segment ... ended' line and a 'Closing' line) in separate data events. *)
(***************************************************************************)
C38_OneSignalPerFile ==
    \A p \in ProcIds : \A n \in 0..MaxLines :
        FinalizedOnce(procs[p].got, n)
            => Cardinality({ i \in 1..Len(units) :
                               units[i].proc = p /\ units[i].path.file = n }) <= 1


\* the places of the messages of a type among those posted
PostedOf(ms, type) == { i \in 1..Len(ms) : ms[i].type = type }

\* a call of stopStreamingRecording made by handleStopStreamingSpeech
\* returns success in the step, no start being under way
HandlerStopSucceeds ==
    /\ starts = {}
    /\ Returned(out', "stop", "ok")
    /\ HandleStopStreamingSpeech \/ listeners.stopping \ listeners'.stopping # {}

(***************************************************************************)
(* C40: when a stop requested through handleStopStreamingSpeech succeeds,  *)
(* exactly one speechStreamingStopped and no speechStreamingError is       *)
(* posted to the webview, also when the final transcript is empty.         *)
(***************************************************************************)
C40_OneStoppedNotification ==
    [][HandlerStopSucceeds
          => /\ Cardinality(PostedOf(posted', "speechStreamingStopped")) = 1
             /\ PostedOf(posted', "speechStreamingError") = {}]_vars

=============================================================================
